---- MODULE Spec2Model ----
(***************************************************************************)
(* Streaming multiplexer (Worker handleChatRequest), client demultiplexer  *)
(* (chat.js sendMessage) and SSE frame decoder (consumeSseEvents) of the   *)
(* three-tone chat application.                                            *)
(***************************************************************************)
EXTENDS Integers, Sequences, FiniteSets, TLC

(***************************************************************************)
(* Bounds of the model.                                                    *)
(***************************************************************************)
\* chunks an upstream stream yields at most before it must end or fail
MaxChunks == 2
\* frames of a response body the client is run on
MaxFrames == 3
\* pieces of a byte string the decoder is run on
MaxPieces == 3
\* messages the user sends
MaxSends == 1
\* frames of a response body sendMessage is run on
MaxSendFrames == 2
\* pieces a markdown text is accumulated from
MaxMdPieces == 3
\* links in a markdown text
MaxLinks == 1

(***************************************************************************)
(* Program constants.                                                      *)
(***************************************************************************)
\* const tones = ['friendly', 'rude', 'professional'] as const;
tones == <<"friendly", "rude", "professional">>

Tones == {tones[i] : i \in 1..Len(tones)}

ToneIndex(t) == CHOOSE i \in 1..Len(tones) : tones[i] = t

\* const TONE_PROMPTS
TONE_PROMPTS ==
  [friendly |-> "You are a warm, friendly, and enthusiastic assistant. Use a casual, upbeat tone with emojis and encouraging language. Provide helpful responses in a cheerful manner.",
   rude |-> "You are a blunt, sarcastic assistant. Be direct and somewhat dismissive in your responses, but still provide accurate information. Use a condescending tone.",
   professional |-> "You are a formal, professional assistant. Provide precise, well-structured responses using formal language. Be thorough and maintain a business-like tone."]

(***************************************************************************)
(* JSON.stringify of a string: the text between double quotes, with the    *)
(* quote, the backslash and the control characters escaped.                *)
(***************************************************************************)
RECURSIVE JsonEscapeKeepsBackslash(_)
\* variant of JsonEscape that writes a backslash of the text as it is
JsonEscapeKeepsBackslash(s) ==
  IF s = "" THEN ""
  ELSE LET c == Head(s)
           e == CASE c = "\"" -> "\\\""
                  [] c = "\n" -> "\\n"
                  [] c = "\r" -> "\\r"
                  [] c = "\t" -> "\\t"
                  [] OTHER -> c
       IN e \o JsonEscapeKeepsBackslash(Tail(s))

RECURSIVE JsonEscape(_)
JsonEscape(s) ==
  IF s = "" THEN ""
  ELSE LET c == Head(s)
           e == CASE c = "\"" -> "\\\""
                  [] c = "\\" -> "\\\\"
                  [] c = "\n" -> "\\n"
                  [] c = "\r" -> "\\r"
                  [] c = "\t" -> "\\t"
                  [] OTHER -> c
       IN e \o JsonEscape(Tail(s))

JsonString(s) == "\"" \o JsonEscape(s) \o "\""

\* JSON.stringify({ tone, thinking: thinking })  /  ({ tone, response: content })
JsonStringify(tone, key, text) ==
  "{" \o JsonString("tone") \o ":" \o JsonString(tone) \o ","
      \o JsonString(key) \o ":" \o JsonString(text) \o "}"

\* variant of SseData that writes the text between quotes as it is
SseDataRaw(tone, key, text) ==
  "data: {" \o JsonString("tone") \o ":" \o JsonString(tone) \o ","
            \o JsonString(key) \o ":\"" \o text \o "\"}\n\n"

\* `data: ${JSON.stringify(...)}\n\n`
SseData(tone, key, text) ==
  "data: " \o JsonStringify(tone, key, text) \o "\n\n"

(***************************************************************************)
(* Strings as the program sees them.  Positions are those of JavaScript:   *)
(* the first character has index 0 and indexOf answers -1 for no match.    *)
(***************************************************************************)
\* the one element of a set of one element; {F(x) : x \in {e}} computes e
\* once, however often F uses x
The(S) == CHOOSE x \in S : TRUE

\* s.slice(from, to) for from, to >= 0; an end behind the string is the end
Slice(s, from, to) == SubSeq(s, from + 1, IF to > Len(s) THEN Len(s) ELSE to)

\* s.slice(from)
SliceFrom(s, from) == SubSeq(s, from + 1, Len(s))

\* s.startsWith(prefix)
StartsWith(s, prefix) == Len(s) >= Len(prefix) /\ SubSeq(s, 1, Len(prefix)) = prefix

RECURSIVE FirstMatch(_, _, _, _)
\* the least index in lo..hi at which pat occurs in s, or -1 (the range is
\* halved so that long strings are searched without deep recursion)
FirstMatch(s, pat, lo, hi) ==
  IF lo > hi THEN -1
  ELSE IF lo = hi THEN (IF SubSeq(s, lo + 1, lo + Len(pat)) = pat THEN lo ELSE -1)
  ELSE LET mid == (lo + hi) \div 2
           left == FirstMatch(s, pat, lo, mid)
       IN IF left # -1 THEN left ELSE FirstMatch(s, pat, mid + 1, hi)

\* s.indexOf(pat)
IndexOf(s, pat) == FirstMatch(s, pat, 0, Len(s) - Len(pat))

RECURSIVE ReplaceCR(_)
\* s.replace(/\r/g, "")
ReplaceCR(s) ==
  IF Len(s) <= 1 THEN (IF s = "\r" THEN "" ELSE s)
  ELSE LET mid == Len(s) \div 2
       IN ReplaceCR(SubSeq(s, 1, mid)) \o ReplaceCR(SubSeq(s, mid + 1, Len(s)))

RECURSIVE Split(_, _)
\* s.split(sep), for a separator of one character
Split(s, sep) ==
  LET i == IndexOf(s, sep)
  IN IF i = -1 THEN <<s>>
     ELSE <<Slice(s, 0, i)>> \o Split(SliceFrom(s, i + 1), sep)

RECURSIVE Join(_, _)
\* parts.join(sep)
Join(parts, sep) ==
  IF parts = <<>> THEN ""
  ELSE IF Len(parts) = 1 THEN parts[1]
  ELSE parts[1] \o sep \o Join(Tail(parts), sep)

WhiteSpace == {" ", "\t", "\n", "\r"}

RECURSIVE TrimStart(_)
\* s.trimStart(): every leading white space character is removed
TrimStart(s) ==
  IF s # "" /\ Head(s) \in WhiteSpace THEN TrimStart(Tail(s)) ELSE s

(***************************************************************************)
(* consumeSseEvents                                                        *)
(***************************************************************************)
RECURSIVE DataLinesOf(_)
\* the for loop over lines: the lines that start with "data:", without the
\* prefix and the white space after it
DataLinesOf(lines) ==
  IF lines = <<>> THEN <<>>
  ELSE (IF StartsWith(Head(lines), "data:")
          THEN <<TrimStart(SliceFrom(Head(lines), Len("data:")))>>
          ELSE <<>>)
       \o DataLinesOf(Tail(lines))

RECURSIVE SseLoop(_, _)
\* the while loop of consumeSseEvents
SseLoop(normalized, evs) ==
  LET eventEndIndex == IndexOf(normalized, "\n\n")
  IN IF eventEndIndex = -1 THEN [events |-> evs, buffer |-> normalized]
     ELSE LET rawEvent == Slice(normalized, 0, eventEndIndex)
              dataLines == DataLinesOf(Split(rawEvent, "\n"))
          IN SseLoop(SliceFrom(normalized, eventEndIndex + 2),
                     IF dataLines = <<>> THEN evs
                     ELSE Append(evs, Join(dataLines, "\n")))

\* variant of consumeSseEvents that forgets the incomplete frame at the end
consumeSseEventsDropsPartial(buf) ==
  [events |-> SseLoop(ReplaceCR(buf), <<>>).events, buffer |-> ""]

\* variant of consumeSseEvents that takes the first frame only and leaves
\* the frames behind it in the buffer
consumeSseEventsFirstOnly(buf) ==
  LET normalized == ReplaceCR(buf)
      eventEndIndex == IndexOf(normalized, "\n\n")
  IN IF eventEndIndex = -1 THEN [events |-> <<>>, buffer |-> normalized]
     ELSE [events |-> SseLoop(Slice(normalized, 0, eventEndIndex + 2), <<>>).events,
           buffer |-> SliceFrom(normalized, eventEndIndex + 2)]

consumeSseEvents(buf) == SseLoop(ReplaceCR(buf), <<>>)

(***************************************************************************)
(* TextDecoder.decode(value, { stream: true }).  Bytes are written as      *)
(* characters: an ASCII byte as its character, "^" and "~" for the lead    *)
(* and the continuation byte of a two-byte character, which is written     *)
(* "@" once decoded; "?" is the replacement character U+FFFD.              *)
(***************************************************************************)
LeadByte == "^"
ContinuationByte == "~"
TwoByteChar == "@"
ReplacementChar == "?"

\* the decoder on one byte
Utf8DecodeByte(b, pending) ==
  IF pending
    THEN IF b = ContinuationByte THEN [text |-> TwoByteChar, pending |-> FALSE]
         ELSE IF b = LeadByte THEN [text |-> ReplacementChar, pending |-> TRUE]
         ELSE [text |-> ReplacementChar \o b, pending |-> FALSE]
    ELSE IF b = LeadByte THEN [text |-> "", pending |-> TRUE]
         ELSE IF b = ContinuationByte THEN [text |-> ReplacementChar, pending |-> FALSE]
         ELSE [text |-> b, pending |-> FALSE]

RECURSIVE Utf8Decode(_, _)
\* the decoded text of the bytes and whether a lead byte is left pending
Utf8Decode(bytes, pending) ==
  IF bytes = "" THEN [text |-> "", pending |-> pending]
  ELSE IF Len(bytes) = 1 THEN Utf8DecodeByte(bytes, pending)
  ELSE LET mid == Len(bytes) \div 2
           left == Utf8Decode(SubSeq(bytes, 1, mid), pending)
           right == Utf8Decode(SubSeq(bytes, mid + 1, Len(bytes)), left.pending)
       IN [text |-> left.text \o right.text, pending |-> right.pending]

RECURSIVE Utf8Encode(_)
\* encoder.encode(data)
Utf8Encode(text) ==
  IF Len(text) <= 1
    THEN (IF text = TwoByteChar THEN LeadByte \o ContinuationByte ELSE text)
  ELSE LET mid == Len(text) \div 2
       IN Utf8Encode(SubSeq(text, 1, mid)) \o Utf8Encode(SubSeq(text, mid + 1, Len(text)))

(***************************************************************************)
(* JSON.parse, for the payloads of this protocol: an object whose members  *)
(* are strings, written without white space.  Anything else on the wire of *)
(* this model is text JSON.parse throws on.                                *)
(***************************************************************************)
CharAt(s, i) == IF i < Len(s) THEN SubSeq(s, i + 1, i + 1) ELSE ""

RECURSIVE ParseStringBody(_, _, _)
\* the characters of a JSON string from index i on, up to the closing quote
ParseStringBody(s, i, acc) ==
  LET c == CharAt(s, i)
  IN IF c = "" \/ c \in {"\n", "\r", "\t"} THEN [ok |-> FALSE, value |-> "", next |-> i]
     ELSE IF c = "\"" THEN [ok |-> TRUE, value |-> acc, next |-> i + 1]
     ELSE IF c = "\\"
       THEN LET e == CharAt(s, i + 1)
                u == CASE e = "\"" -> "\""
                       [] e = "\\" -> "\\"
                       [] e = "/" -> "/"
                       [] e = "n" -> "\n"
                       [] e = "r" -> "\r"
                       [] e = "t" -> "\t"
                       [] OTHER -> ""
            IN IF u = "" THEN [ok |-> FALSE, value |-> "", next |-> i]
               ELSE ParseStringBody(s, i + 2, acc \o u)
     ELSE ParseStringBody(s, i + 1, acc \o c)

ParseString(s, i) ==
  IF CharAt(s, i) = "\"" THEN ParseStringBody(s, i + 1, "")
  ELSE [ok |-> FALSE, value |-> "", next |-> i]

RECURSIVE ParseMembers(_, _, _)
\* the members of an object from index i on, up to the closing brace
ParseMembers(s, i, acc) ==
  LET k == ParseString(s, i)
  IN IF ~k.ok \/ CharAt(s, k.next) # ":" THEN [ok |-> FALSE, members |-> <<>>]
     ELSE LET v == ParseString(s, k.next + 1)
              more == Append(acc, [key |-> k.value, value |-> v.value])
          IN IF ~v.ok THEN [ok |-> FALSE, members |-> <<>>]
             ELSE IF CharAt(s, v.next) = "," THEN ParseMembers(s, v.next + 1, more)
             ELSE IF CharAt(s, v.next) = "}" /\ v.next + 1 = Len(s)
               THEN [ok |-> TRUE, members |-> more]
             ELSE [ok |-> FALSE, members |-> <<>>]

\* JSON.parse(data): ok is FALSE when it throws
JsonParse(s) ==
  IF s = "{}" THEN [ok |-> TRUE, members |-> <<>>]
  ELSE IF CharAt(s, 0) = "{" THEN ParseMembers(s, 1, <<>>)
  ELSE [ok |-> FALSE, members |-> <<>>]

RECURSIVE Prop(_, _)
\* jsonData[key]; an absent member reads as "", which the program, testing
\* only for truthiness, does not tell from undefined
Prop(members, key) ==
  IF members = <<>> THEN ""
  ELSE IF members[Len(members)].key = key THEN members[Len(members)].value
  ELSE Prop(SubSeq(members, 1, Len(members) - 1), key)

(***************************************************************************)
(* parseMarkdown.  Every pass is a regular-expression replace of the       *)
(* program, written as the scan the expression performs: the leftmost      *)
(* match is replaced and the scan goes on behind it; where no match starts *)
(* at a candidate position the scan goes on one character further.         *)
(***************************************************************************)
RECURSIVE ReplaceAll(_, _, _)
\* s.replace(/pat/g, rep) for a literal pat
ReplaceAll(s, pat, rep) ==
  LET i == IndexOf(s, pat)
  IN IF i = -1 THEN s
     ELSE Slice(s, 0, i) \o rep \o ReplaceAll(SliceFrom(s, i + Len(pat)), pat, rep)

RECURSIVE ReplaceEach(_, _, _)
\* s.replace(..).replace(..)..: the first n replacements of pairs, in order
ReplaceEach(s, pairs, n) ==
  IF n = 0 THEN s
  ELSE The({ReplaceAll(x, pairs[n][1], pairs[n][2]) : x \in {ReplaceEach(s, pairs, n - 1)}})

\* variant of escapeHtml that leaves the angle brackets as they are
escapeHtmlQuotesOnly(unsafe) ==
  LET pairs == << <<"&", "&amp;">>, <<"\"", "&quot;">>, <<"'", "&#039;">> >>
  IN ReplaceEach(unsafe, pairs, Len(pairs))

\* escapeHtml
escapeHtml(unsafe) ==
  LET pairs == << <<"&", "&amp;">>, <<"<", "&lt;">>, <<">", "&gt;">>,
                  <<"\"", "&quot;">>, <<"'", "&#039;">> >>
  IN ReplaceEach(unsafe, pairs, Len(pairs))

UpperCase == "ABCDEFGHIJKLMNOPQRSTUVWXYZ"
LowerCase == "abcdefghijklmnopqrstuvwxyz"
Digits == "0123456789"

IsDigit(c) == Len(c) = 1 /\ IndexOf(Digits, c) # -1

\* \w
IsWordChar(c) ==
  Len(c) = 1 /\ (IndexOf(UpperCase, c) # -1 \/ IndexOf(LowerCase, c) # -1
                 \/ IsDigit(c) \/ c = "_")

RECURSIVE ToLowerCase(_)
\* s.toLowerCase()
ToLowerCase(s) ==
  IF Len(s) = 0 THEN ""
  ELSE IF Len(s) = 1
    THEN LET i == IndexOf(UpperCase, s) IN IF i = -1 THEN s ELSE CharAt(LowerCase, i)
  ELSE LET mid == Len(s) \div 2
       IN ToLowerCase(SubSeq(s, 1, mid)) \o ToLowerCase(SubSeq(s, mid + 1, Len(s)))

RECURSIVE TrimEnd(_)
TrimEnd(s) ==
  IF s # "" /\ SubSeq(s, Len(s), Len(s)) \in WhiteSpace
    THEN TrimEnd(SubSeq(s, 1, Len(s) - 1)) ELSE s

\* s.trim()
Trim(s) == TrimEnd(TrimStart(s))

RECURSIVE WordRunEnd(_, _)
\* the index behind the run of word characters that starts at index i
WordRunEnd(s, i) == IF IsWordChar(CharAt(s, i)) THEN WordRunEnd(s, i + 1) ELSE i

\* the grave accent, which a string of this notation cannot hold, is written "%"
Backtick == "%"

Fence == Backtick \o Backtick \o Backtick

RECURSIVE CodeBlocks(_)
\* the code block pass: a fence, an optional word, a newline, the shortest
\* text up to the next fence; replaced by <pre><code>, the text trimmed,
\* </code></pre>
CodeBlocks(s) ==
  LET i == IndexOf(s, Fence)
  IN IF i = -1 THEN s
     ELSE LET j == WordRunEnd(s, i + 3)
              k == IF CharAt(s, j) = "\n" THEN IndexOf(SliceFrom(s, j + 1), Fence) ELSE -1
          IN IF k = -1 THEN Slice(s, 0, i + 1) \o CodeBlocks(SliceFrom(s, i + 1))
             ELSE Slice(s, 0, i)
                  \o "<pre><code>" \o Trim(Slice(s, j + 1, j + 1 + k)) \o "</code></pre>"
                  \o CodeBlocks(SliceFrom(s, j + 1 + k + 3))

RECURSIVE DelimPass(_, _, _, _)
\* html.replace(/D([^c]+)D/g, '<tag>$1</tag>') where the delimiter D is the
\* character c once or twice: inline code, bold and italic
DelimPass(s, c, delim, tag) ==
  LET i == IndexOf(s, delim)
      n == Len(delim)
  IN IF i = -1 THEN s
     ELSE LET after == SliceFrom(s, i + n)
              j == IndexOf(after, c)
          IN IF j >= 1 /\ Slice(after, j, j + n) = delim
               THEN Slice(s, 0, i)
                    \o "<" \o tag \o ">" \o Slice(after, 0, j) \o "</" \o tag \o ">"
                    \o DelimPass(SliceFrom(after, j + n), c, delim, tag)
               ELSE Slice(s, 0, i + 1) \o DelimPass(SliceFrom(s, i + 1), c, delim, tag)

\* one line under html.replace(/^MARK (.*$)/gim, '<tag>$1</tag>')
HeaderLine(line, mark, tag) ==
  IF StartsWith(line, mark \o " ")
    THEN "<" \o tag \o ">" \o SliceFrom(line, Len(mark) + 1) \o "</" \o tag \o ">"
    ELSE line

MapLines(s, Op(_)) ==
  LET lines == Split(s, "\n")
  IN Join([i \in 1..Len(lines) |-> Op(lines[i])], "\n")

\* the three header passes, h3 first
Headers(s) ==
  LET H3(l) == HeaderLine(l, "###", "h3")
      H2(l) == HeaderLine(l, "##", "h2")
      H1(l) == HeaderLine(l, "#", "h1")
  IN The({MapLines(y, H1) : y \in {MapLines(x, H2) : x \in {MapLines(s, H3)}}})

\* variant of SafeUrl that blocks only the javascript scheme
SafeUrlDenyList(url) ==
  LET trimmedUrl == Trim(url)
  IN IF StartsWith(ToLowerCase(trimmedUrl), "javascript:") THEN "#" ELSE trimmedUrl

\* the link callback's safeUrl: the trimmed target, or "#"
SafeUrl(url) ==
  LET trimmedUrl == Trim(url)
      lowerUrl == ToLowerCase(trimmedUrl)
      isAllowedScheme == \/ StartsWith(lowerUrl, "http://")
                         \/ StartsWith(lowerUrl, "https://")
                         \/ StartsWith(lowerUrl, "mailto:")
      isRelativeOrHash == \/ StartsWith(trimmedUrl, "/")
                          \/ StartsWith(trimmedUrl, "#")
                          \/ IndexOf(trimmedUrl, ":") = -1
  IN IF isAllowedScheme \/ isRelativeOrHash THEN trimmedUrl ELSE "#"

AnchorOpen == "<a href=\""
AnchorAttrs == "\" target=\"_blank\" rel=\"noopener noreferrer\">"

RECURSIVE Links(_)
\* html.replace(/\[([^\]]+)\]\(([^)]+)\)/g, function (match, text, url) ...)
Links(s) ==
  LET i == IndexOf(s, "[")
  IN IF i = -1 THEN s
     ELSE LET after == SliceFrom(s, i + 1)
              j == IndexOf(after, "]")
              target == SliceFrom(after, j + 2)
              k == IF j >= 1 /\ CharAt(after, j + 1) = "(" THEN IndexOf(target, ")") ELSE -1
          IN IF k >= 1
               THEN Slice(s, 0, i)
                    \o AnchorOpen \o SafeUrl(Slice(target, 0, k)) \o AnchorAttrs
                    \o Slice(after, 0, j) \o "</a>"
                    \o Links(SliceFrom(target, k + 1))
               ELSE Slice(s, 0, i + 1) \o Links(after)

\* /^[*-] (.+)$/.test(line)
IsUlItem(line) ==
  Len(line) >= 3 /\ (StartsWith(line, "* ") \/ StartsWith(line, "- "))

RECURSIVE DigitRunEnd(_, _)
DigitRunEnd(s, i) == IF IsDigit(CharAt(s, i)) THEN DigitRunEnd(s, i + 1) ELSE i

\* /^\d+\. (.+)$/.test(line)
IsOlItem(line) ==
  LET d == DigitRunEnd(line, 0)
  IN d >= 1 /\ Slice(line, d, d + 2) = ". " /\ Len(line) >= d + 3

\* line.replace(/^[*-] (.+)$/, '<li>$1</li>')
UlItem(line) == "<li>" \o SliceFrom(line, 2) \o "</li>"

\* line.replace(/^\d+\. (.+)$/, '<li>$1</li>')
OlItem(line) == "<li>" \o SliceFrom(line, DigitRunEnd(line, 0) + 2) \o "</li>"

RECURSIVE ListLoop(_, _, _, _, _)
\* the for loop over lines and the two closing statements behind it
ListLoop(lines, i, result, inUl, inOl) ==
  IF i > Len(lines)
    THEN result \o (IF inUl THEN <<"</ul>">> ELSE <<>>) \o (IF inOl THEN <<"</ol>">> ELSE <<>>)
  ELSE LET line == lines[i]
       IN IF IsUlItem(line)
            THEN ListLoop(lines, i + 1,
                   result \o (IF inUl THEN <<>> ELSE <<"<ul>">>) \o <<UlItem(line)>>,
                   TRUE, inOl)
          ELSE IF IsOlItem(line)
            THEN ListLoop(lines, i + 1,
                   result \o (IF inOl THEN <<>> ELSE <<"<ol>">>) \o <<OlItem(line)>>,
                   inUl, TRUE)
          ELSE ListLoop(lines, i + 1,
                   result \o (IF inUl THEN <<"</ul>">> ELSE <<>>)
                          \o (IF inOl THEN <<"</ol>">> ELSE <<>>) \o <<line>>,
                   FALSE, FALSE)

\* the list pass: html.split('\n'), the loop, result.join('\n')
Lists(s) == Join(ListLoop(Split(s, "\n"), 1, <<>>, FALSE, FALSE), "\n")

\* one line under html.replace(/^> (.+)$/gim, '<blockquote>$1</blockquote>')
BlockquoteLine(line) ==
  IF StartsWith(line, "> ") /\ Len(line) >= 3
    THEN "<blockquote>" \o SliceFrom(line, 2) \o "</blockquote>"
    ELSE line

Blockquotes(s) == MapLines(s, BlockquoteLine)

\* the alternatives of blockRegex
BlockDelims ==
  { <<"<pre><code>", "</code></pre>">>, <<"<ul>", "</ul>">>, <<"<ol>", "</ol>">> }

\* the extent of the first match of one alternative in s, if it has one
BlockMatch(s, d) ==
  LET i == IndexOf(s, d[1])
      e == IF i = -1 THEN -1 ELSE IndexOf(SliceFrom(s, i + Len(d[1])), d[2])
  IN IF e = -1 THEN [found |-> FALSE, from |-> 0, to |-> 0]
     ELSE [found |-> TRUE, from |-> i, to |-> i + Len(d[1]) + e + Len(d[2])]

RECURSIVE replaceNewlinesOutsideBlocks(_)
\* the segments outside the blocks get every "\n" replaced by "<br>"
replaceNewlinesOutsideBlocks(htmlContent) ==
  LET ms == {m \in {BlockMatch(htmlContent, d) : d \in BlockDelims} : m.found}
  IN IF ms = {} THEN ReplaceAll(htmlContent, "\n", "<br>")
     ELSE LET m == CHOOSE x \in ms : \A y \in ms : x.from <= y.from
          IN ReplaceAll(Slice(htmlContent, 0, m.from), "\n", "<br>")
             \o Slice(htmlContent, m.from, m.to)
             \o replaceNewlinesOutsideBlocks(SliceFrom(htmlContent, m.to))

\* the k-th pass between escapeHtml and the list pass
InlinePass(k, h) ==
  CASE k = 1 -> CodeBlocks(h)
    [] k = 2 -> DelimPass(h, Backtick, Backtick, "code")
    [] k = 3 -> DelimPass(h, "*", "**", "strong")
    [] k = 4 -> DelimPass(h, "_", "__", "strong")
    [] k = 5 -> DelimPass(h, "*", "*", "em")
    [] k = 6 -> DelimPass(h, "_", "_", "em")
    [] k = 7 -> Headers(h)
    [] k = 8 -> Links(h)

RECURSIVE InlinePassesTo(_, _)
\* the first k of these passes, each applied to the result of the one before
InlinePassesTo(s, k) ==
  IF k = 0 THEN s ELSE The({InlinePass(k, h) : h \in {InlinePassesTo(s, k - 1)}})

\* the passes between escapeHtml and the list pass
InlinePasses(s) == InlinePassesTo(s, 8)

\* parseMarkdown(text)
parseMarkdown(text) ==
  The({replaceNewlinesOutsideBlocks(b) :
         b \in {Blockquotes(l) :
           l \in {Lists(i) :
             i \in {InlinePasses(e) : e \in {escapeHtml(text)}}}}})

(***************************************************************************)
(* The upstream model API: a stream of deltas, each carrying a reasoning   *)
(* fragment, a content fragment, both or neither.  The scripts below are   *)
(* the inputs of the model: the fragment texts differ by position so that  *)
(* a reordering is visible, and some hold characters JSON.stringify        *)
(* escapes and a character of two bytes.                                   *)
(***************************************************************************)
ReasoningLetters == <<"a", "\n\"", "c", "d">>
ContentLetters == <<TwoByteChar, "\\B", "C", "D">>
KindCycle == <<"both", "content", "reasoning", "neither">>

ChunkOfKind(k, i) ==
  [reasoning_content |-> IF k \in {"both", "reasoning"} THEN ReasoningLetters[i] ELSE "",
   content |-> IF k \in {"both", "content"} THEN ContentLetters[i] ELSE ""]

Script(t, rot) ==
  [i \in 1..MaxChunks |-> ChunkOfKind(KindCycle[((i + ToneIndex(t) + rot) % 4) + 1], i)]

UpstreamScripts == {[t \in Tones |-> Script(t, rot)] : rot \in 0..1}

\* the fragment texts of the scripts
Fragments ==
  {ReasoningLetters[i] : i \in 1..MaxChunks} \cup {ContentLetters[i] : i \in 1..MaxChunks}

\* controller.enqueue(encoder.encode(data)): the frame of one token, tagged
\* with the tone of the task that enqueues it (SseData tabulated over the
\* tokens of the scripts)
EncodedFrame ==
  [t \in Tones |->
    [key \in {"thinking", "response"} |->
      [text \in Fragments |-> [tone |-> t, data |-> SseData(t, key, text)]]]]

VARIABLES
  upstream,       \* per tone: the deltas its upstream stream yields, in order
  hpc,            \* position of handleChatRequest: "opening", "streaming", "errorResponse"
  open,           \* per tone: state of its streamPromises entry
  task,           \* per tone: state of its async task inside start()
  pos,            \* per tone: chunks of the upstream stream the task has processed
  out,            \* every frame handed to controller.enqueue, in order
  nread,          \* frames the consumer has read from the channel
  chan,           \* state of the ReadableStream
  closeRequested, \* controller.close() was accepted with frames still queued
  startPc,        \* position of start(): "idle", "waiting", "closed", "caught"
  aborted,        \* abortController.signal.aborted
  consumerGone,   \* the consumer has disconnected or cancelled
  apiKey,         \* env.Z_AI_API_KEY ("" when it is not set)
  request,        \* what request.json() gives for the body of the request
  reply,          \* the Response handleChatRequest returns
  upstreamMessages, \* per tone: the messages given to create(), <<>> before the call
  \* -- the client (sendMessage) --
  sent,           \* the frames the response body is made of (input of the model)
  wire,           \* the bytes of the response body
  rest,           \* the bytes the transport has not delivered yet
  decoderPending, \* the TextDecoder holds the lead byte of an incomplete character
  buffer,         \* let buffer: the reassembly buffer
  events,         \* the payloads decoded so far, in order
  sawDone,        \* let sawDone
  cpc,            \* position of sendMessage: "idle", "reading", "complete"
  thinkingText,   \* per tone: responseElements[tone].thinkingText
  responseText,   \* per tone: responseElements[tone].responseText
  \* -- the page (chat.js) --
  inputValue,     \* userInput.value
  sendReturn,     \* the last call of sendMessage: "none", "returned" at its guard, "started"
  isProcessing,   \* let isProcessing
  inputDisabled,  \* userInput.disabled and sendButton.disabled
  typingVisible,  \* the typing indicator carries the class "visible"
  chatHistory,    \* let chatHistory
  chatLog,        \* the messages addMessageToChat has appended to the page
  html,           \* per tone: responseContainer.innerHTML
  thinkingContent,\* per tone: thinkingContentEl.textContent
  thinkingDisplay,\* per tone: thinkingSection.style.display
  lastRenderTime, \* let lastRenderTime
  now,            \* Date.now()
  \* -- parseMarkdown on its own --
  mdText,         \* the text accumulated so far
  mdHtml,         \* its render
  npieces,        \* the pieces the text was accumulated from
  links           \* the targets of the links put into the text, in order

muxVars == <<upstream, hpc, open, task, pos, out, nread, chan, closeRequested, startPc,
             aborted, consumerGone>>

clientVars == <<sent, wire, rest, decoderPending, buffer, events, sawDone, cpc,
                thinkingText, responseText>>

reqVars == <<apiKey, request, reply, upstreamMessages>>

uiVars == <<inputValue, sendReturn, isProcessing, inputDisabled, typingVisible,
            chatHistory, chatLog, html, thinkingContent, thinkingDisplay, lastRenderTime, now>>

renderVars == <<mdText, mdHtml, npieces, links>>

vars == <<muxVars, reqVars, clientVars, uiVars, renderVars>>

\* the Response objects of handleChatRequest
NoReply == [kind |-> "none", status |-> 0, body |-> ""]

\* new Response(JSON.stringify({ error: msg }), { status: 500, ... })
ErrorReply(msg) ==
  [kind |-> "json", status |-> 500,
   body |-> "{" \o JsonString("error") \o ":" \o JsonString(msg) \o "}"]

\* new Response(readable, { headers: { "content-type": "text/event-stream" ... } })
StreamReply == [kind |-> "stream", status |-> 200, body |-> ""]

RECURSIVE UserMessagesUnfiltered(_)
\* variant of UserMessages that keeps every message
UserMessagesUnfiltered(messages) ==
  IF messages = <<>> THEN <<>>
  ELSE <<Head(messages)>> \o UserMessagesUnfiltered(Tail(messages))

RECURSIVE UserMessages(_)
\* messages.filter((msg) => msg.role !== "system")
UserMessages(messages) ==
  IF messages = <<>> THEN <<>>
  ELSE (IF Head(messages).role # "system" THEN <<Head(messages)>> ELSE <<>>)
       \o UserMessages(Tail(messages))

\* [{ role: "system", content: TONE_PROMPTS[tone] }, ...userMessages]
MessagesWithTone(tone, userMessages) ==
  <<[role |-> "system", content |-> TONE_PROMPTS[tone]]>> \o userMessages

\* the multiplexer before a request
MuxIdle ==
  /\ upstream = [t \in Tones |-> <<>>]
  /\ hpc = "idle"
  /\ open = [t \in Tones |-> "pending"]
  /\ task = [t \in Tones |-> "idle"]
  /\ pos = [t \in Tones |-> 0]
  /\ out = <<>>
  /\ nread = 0
  /\ chan = "none"
  /\ closeRequested = FALSE
  /\ startPc = "idle"
  /\ aborted = FALSE
  /\ consumerGone = FALSE
  /\ apiKey = "key"
  /\ request = [shape |-> "none", messages |-> <<>>]
  /\ reply = NoReply
  /\ upstreamMessages = [t \in Tones |-> <<>>]

\* the client before a message is sent
ClientIdle ==
  /\ sent = <<>>
  /\ wire = ""
  /\ rest = ""
  /\ decoderPending = FALSE
  /\ buffer = ""
  /\ events = <<>>
  /\ sawDone = FALSE
  /\ cpc = "idle"
  /\ thinkingText = [t \in Tones |-> ""]
  /\ responseText = [t \in Tones |-> ""]

\* the values of env.Z_AI_API_KEY of the model: not set, blank, set
ApiKeys == {"", "  ", "key"}

ChatMessages ==
  { <<>>,
    <<[role |-> "user", content |-> "hi"]>>,
    <<[role |-> "system", content |-> "s"], [role |-> "user", content |-> "hi"]>>,
    <<[role |-> "assistant", content |-> "Hello!"], [role |-> "user", content |-> "hi"],
      [role |-> "system", content |-> TONE_PROMPTS["rude"]],
      [role |-> "assistant", content |-> "yo"], [role |-> "system", content |-> "s"],
      [role |-> "user", content |-> "hi"]>> }

\* what request.json() gives: it throws on a body that is not JSON; the
\* JSON value null; an object without messages; an object whose messages are
\* no array; an object with an array of messages
Requests ==
  {[shape |-> sh, messages |-> <<>>] : sh \in {"throws", "null", "noMessages", "notArray"}}
  \cup {[shape |-> "array", messages |-> m] : m \in ChatMessages}

\* a request that passes the checks of the handler
RequestAccepted ==
  /\ apiKey = "key"
  /\ request = [shape |-> "array", messages |-> <<[role |-> "user", content |-> "hi"]>>]
  /\ reply = NoReply
  /\ upstreamMessages =
       [t \in Tones |-> MessagesWithTone(t, UserMessages(request.messages))]

\* const RENDER_THROTTLE_MS = 50
RENDER_THROTTLE_MS == 50

\* Date.now() when the page is loaded: some time later than the throttle
\* interval after the epoch
StartTime == 2 * RENDER_THROTTLE_MS

\* let chatHistory = [{ role: "assistant", content: "Hello! ..." }]
InitialHistory == <<[role |-> "assistant", content |-> "Hello!"]>>

\* the page before a message is sent
UiIdle ==
  /\ inputValue = ""
  /\ sendReturn = "none"
  /\ isProcessing = FALSE
  /\ inputDisabled = FALSE
  /\ typingVisible = FALSE
  /\ chatHistory = InitialHistory
  /\ chatLog = <<>>
  /\ html = [t \in Tones |-> ""]
  /\ thinkingContent = [t \in Tones |-> ""]
  /\ thinkingDisplay = [t \in Tones |-> "none"]
  /\ lastRenderTime = 0
  /\ now = StartTime

RenderIdle ==
  /\ mdText = ""
  /\ mdHtml = ""
  /\ npieces = 0
  /\ links = <<>>

InitMux ==
  /\ upstream \in UpstreamScripts
  /\ hpc = "opening"
  /\ open = [t \in Tones |-> "pending"]
  /\ task = [t \in Tones |-> "idle"]
  /\ pos = [t \in Tones |-> 0]
  /\ out = <<>>
  /\ nread = 0
  /\ chan = "none"
  /\ closeRequested = FALSE
  /\ startPc = "idle"
  /\ aborted = FALSE
  /\ consumerGone = FALSE
  /\ RequestAccepted
  /\ ClientIdle
  /\ UiIdle
  /\ RenderIdle

(***************************************************************************)
(* handleChatRequest up to the streamPromises: the body of the request,    *)
(* the API key.                                                            *)
(***************************************************************************)
\* variant of HandleRequest that looks at the API key only when the calls
\* to the model API have been started
HandleRequestCallsFirst ==
  /\ hpc = "received"
  /\ IF request.shape \in {"throws", "null", "notArray"}
       THEN /\ hpc' = "errorResponse"
            /\ reply' = ErrorReply("Failed to process request")
            /\ open' = open
            /\ upstreamMessages' = upstreamMessages
       ELSE /\ open' = [t \in Tones |-> "pending"]
            /\ upstreamMessages' =
                 [t \in Tones |-> MessagesWithTone(t, UserMessages(request.messages))]
            /\ IF apiKey = "" \/ Trim(apiKey) = ""
                 THEN /\ hpc' = "errorResponse"
                      /\ reply' = ErrorReply("Server configuration error: Z_AI_API_KEY is not set")
                 ELSE /\ hpc' = "opening"
                      /\ reply' = reply
  /\ UNCHANGED <<upstream, task, pos, out, nread, chan, closeRequested, startPc, aborted,
                 consumerGone, apiKey, request>>
  /\ UNCHANGED <<clientVars, uiVars, renderVars>>

\* request.json() settles: a body that is no JSON, or no object, or whose
\* messages cannot be filtered, throws into the outer catch; a missing or
\* blank API key is answered at once; otherwise the N create() calls are made
HandleRequest ==
  /\ hpc = "received"
  /\ IF request.shape \in {"throws", "null", "notArray"}
       THEN /\ hpc' = "errorResponse"
            /\ reply' = ErrorReply("Failed to process request")
            /\ open' = open
            /\ upstreamMessages' = upstreamMessages
       ELSE IF apiKey = "" \/ Trim(apiKey) = ""
         THEN /\ hpc' = "errorResponse"
              /\ reply' = ErrorReply("Server configuration error: Z_AI_API_KEY is not set")
              /\ open' = open
              /\ upstreamMessages' = upstreamMessages
         ELSE /\ hpc' = "opening"
              /\ reply' = reply
              /\ open' = [t \in Tones |-> "pending"]
              /\ upstreamMessages' =
                   [t \in Tones |-> MessagesWithTone(t, UserMessages(request.messages))]
  /\ UNCHANGED <<upstream, task, pos, out, nread, chan, closeRequested, startPc, aborted,
                 consumerGone, apiKey, request>>
  /\ UNCHANGED <<clientVars, uiVars, renderVars>>

InitHandle ==
  /\ upstream \in UpstreamScripts
  /\ hpc = "received"
  /\ open = [t \in Tones |-> "notCalled"]
  /\ task = [t \in Tones |-> "idle"]
  /\ pos = [t \in Tones |-> 0]
  /\ out = <<>>
  /\ nread = 0
  /\ chan = "none"
  /\ closeRequested = FALSE
  /\ startPc = "idle"
  /\ aborted = FALSE
  /\ consumerGone = FALSE
  /\ apiKey \in ApiKeys
  /\ request \in Requests
  /\ reply = NoReply
  /\ upstreamMessages = [t \in Tones |-> <<>>]
  /\ ClientIdle
  /\ UiIdle
  /\ RenderIdle

(***************************************************************************)
(* Opening the N upstream streams: streamPromises / Promise.all.           *)
(***************************************************************************)
\* openai.chat.completions.create(...) of tone t resolves
OpenStream(t) ==
  /\ hpc = "opening"
  /\ open[t] = "pending"
  /\ open' = [open EXCEPT ![t] = "open"]
  /\ UNCHANGED <<reqVars, clientVars, uiVars, renderVars>>
  /\ UNCHANGED <<upstream, hpc, task, pos, out, nread, chan, closeRequested, startPc,
                 aborted, consumerGone>>

\* openai.chat.completions.create(...) of tone t rejects
OpenFail(t) ==
  /\ hpc = "opening"
  /\ open[t] = "pending"
  /\ open' = [open EXCEPT ![t] = "failed"]
  /\ UNCHANGED <<reqVars, clientVars, uiVars, renderVars>>
  /\ UNCHANGED <<upstream, hpc, task, pos, out, nread, chan, closeRequested, startPc,
                 aborted, consumerGone>>

\* await Promise.all(streamPromises) rejects: the outer catch answers with
\* the JSON error body, no ReadableStream is constructed
OpenCatch ==
  /\ hpc = "opening"
  /\ \E t \in Tones : open[t] = "failed"
  /\ hpc' = "errorResponse"
  /\ reply' = ErrorReply("Failed to process request")
  /\ UNCHANGED <<apiKey, request, upstreamMessages, clientVars, uiVars, renderVars>>
  /\ UNCHANGED <<upstream, open, task, pos, out, nread, chan, closeRequested, startPc,
                 aborted, consumerGone>>

\* await Promise.all(streamPromises) resolves: new ReadableStream({start, cancel})
\* runs start() up to its await, every task up to its first `for await`
StartStreaming ==
  /\ hpc = "opening"
  /\ \A t \in Tones : open[t] = "open"
  /\ hpc' = "streaming"
  /\ chan' = "readable"
  /\ startPc' = "waiting"
  /\ task' = [t \in Tones |-> "running"]
  /\ reply' = StreamReply
  /\ UNCHANGED <<apiKey, request, upstreamMessages, clientVars, uiVars, renderVars>>
  /\ UNCHANGED <<upstream, open, pos, out, nread, closeRequested, aborted, consumerGone>>

(***************************************************************************)
(* The per-tone task of start(): one iteration of `for await`.             *)
(***************************************************************************)
\* variant of FramesOf that enqueues the response frame before the thinking frame
FramesOfResponseFirst(t, chunk) ==
  (IF chunk.content # ""
     THEN <<EncodedFrame[t]["response"][chunk.content]>>
     ELSE <<>>)
  \o
  (IF chunk.reasoning_content # ""
     THEN <<EncodedFrame[t]["thinking"][chunk.reasoning_content]>>
     ELSE <<>>)

\* the frames one chunk is encoded to: thinking first, then response
FramesOf(t, chunk) ==
  (IF chunk.reasoning_content # ""
     THEN <<EncodedFrame[t]["thinking"][chunk.reasoning_content]>>
     ELSE <<>>)
  \o
  (IF chunk.content # ""
     THEN <<EncodedFrame[t]["response"][chunk.content]>>
     ELSE <<>>)

\* ReadableStreamDefaultControllerCanCloseOrEnqueue
CanCloseOrEnqueue == chan = "readable" /\ ~closeRequested

\* the upstream of tone t still produces tokens
Available(t) ==
  /\ open[t] = "open"
  /\ task[t] \in {"idle", "running"}
  /\ pos[t] < MaxChunks
  /\ ~aborted

\* variant of TaskStep that drains the streams in turn: a task takes its next
\* chunk only when no running task is behind it
TaskStepInTurn(t) ==
  /\ hpc = "streaming"
  /\ task[t] = "running"
  /\ Available(t)
  /\ \A u \in Tones : task[u] = "running" => pos[t] <= pos[u]
  /\ LET frames == FramesOf(t, upstream[t][pos[t] + 1])
     IN IF frames = <<>> \/ CanCloseOrEnqueue
          THEN /\ out' = out \o frames
               /\ pos' = [pos EXCEPT ![t] = @ + 1]
               /\ task' = task
          ELSE /\ task' = [task EXCEPT ![t] = "failed"]
               /\ UNCHANGED <<out, pos>>
  /\ UNCHANGED <<reqVars, clientVars, uiVars, renderVars>>
  /\ UNCHANGED <<upstream, hpc, open, nread, chan, closeRequested, startPc, aborted,
                 consumerGone>>

\* the upstream yields its next chunk; its frames are enqueued, or the first
\* controller.enqueue throws TypeError and the task rejects
TaskStep(t) ==
  /\ hpc = "streaming"
  /\ task[t] = "running"
  /\ Available(t)
  /\ LET frames == FramesOf(t, upstream[t][pos[t] + 1])
     IN IF frames = <<>> \/ CanCloseOrEnqueue
          THEN /\ out' = out \o frames
               /\ pos' = [pos EXCEPT ![t] = @ + 1]
               /\ task' = task
          ELSE /\ task' = [task EXCEPT ![t] = "failed"]
               /\ UNCHANGED <<out, pos>>
  /\ UNCHANGED <<reqVars, clientVars, uiVars, renderVars>>
  /\ UNCHANGED <<upstream, hpc, open, nread, chan, closeRequested, startPc, aborted,
                 consumerGone>>

\* the upstream stream ends: the `for await` loop exits, the task resolves
TaskEnd(t) ==
  /\ hpc = "streaming"
  /\ task[t] = "running"
  /\ task' = [task EXCEPT ![t] = "done"]
  /\ UNCHANGED <<reqVars, clientVars, uiVars, renderVars>>
  /\ UNCHANGED <<upstream, hpc, open, pos, out, nread, chan, closeRequested, startPc,
                 aborted, consumerGone>>

\* the upstream stream fails: the iterator throws, the task rejects
UpstreamFail(t) ==
  /\ hpc = "streaming"
  /\ task[t] = "running"
  /\ task' = [task EXCEPT ![t] = "failed"]
  /\ UNCHANGED <<reqVars, clientVars, uiVars, renderVars>>
  /\ UNCHANGED <<upstream, hpc, open, pos, out, nread, chan, closeRequested, startPc,
                 aborted, consumerGone>>

(***************************************************************************)
(* start(): await Promise.all(streams.map(...)), then close or error.      *)
(***************************************************************************)
\* variant of AllSettled that resolves with the first task that resolves
AnySettled == \E t \in Tones : task[t] = "done"

\* Promise.all resolves once every task has resolved
AllSettled == \A t \in Tones : task[t] = "done"

\* Promise.all resolves: controller.close().  On a cancelled stream close()
\* throws TypeError, which the catch hands to controller.error (a no-op then).
StartResolve ==
  /\ startPc = "waiting"
  /\ AllSettled
  /\ IF CanCloseOrEnqueue
       THEN /\ startPc' = "closed"
            /\ IF nread = Len(out)
                 THEN chan' = "closed" /\ closeRequested' = closeRequested
                 ELSE chan' = chan /\ closeRequested' = TRUE
       ELSE /\ startPc' = "caught"
            /\ UNCHANGED <<chan, closeRequested>>
  /\ UNCHANGED <<reqVars, clientVars, uiVars, renderVars>>
  /\ UNCHANGED <<upstream, hpc, open, task, pos, out, nread, aborted, consumerGone>>

\* variant of StartCatch that swallows the failure and closes the stream
StartCatchCloses ==
  /\ startPc = "waiting"
  /\ \E t \in Tones : task[t] = "failed"
  /\ startPc' = "caught"
  /\ chan' = IF chan = "readable" THEN "closed" ELSE chan
  /\ UNCHANGED <<reqVars, clientVars, uiVars, renderVars>>
  /\ UNCHANGED <<upstream, hpc, open, task, pos, out, nread, closeRequested, aborted,
                 consumerGone>>

\* Promise.all rejects as soon as one task rejects: controller.error(error)
\* resets the queue and errors the stream if it is still readable
StartCatch ==
  /\ startPc = "waiting"
  /\ \E t \in Tones : task[t] = "failed"
  /\ startPc' = "caught"
  /\ chan' = IF chan = "readable" THEN "errored" ELSE chan
  /\ UNCHANGED <<reqVars, clientVars, uiVars, renderVars>>
  /\ UNCHANGED <<upstream, hpc, open, task, pos, out, nread, closeRequested, aborted,
                 consumerGone>>

(***************************************************************************)
(* The consumer of the response body.                                      *)
(***************************************************************************)
\* variant of ConsumerRead in which a requested close is forgotten: the
\* stream stays readable when the queue has drained
ConsumerReadKeepsOpen ==
  /\ chan = "readable"
  /\ nread < Len(out)
  /\ nread' = nread + 1
  /\ UNCHANGED <<reqVars, clientVars, uiVars, renderVars>>
  /\ UNCHANGED <<upstream, hpc, open, task, pos, out, chan, closeRequested, startPc,
                 aborted, consumerGone>>

\* the consumer reads the next queued frame; a requested close takes effect
\* when the queue drains
ConsumerRead ==
  /\ chan = "readable"
  /\ nread < Len(out)
  /\ nread' = nread + 1
  /\ chan' = IF closeRequested /\ nread + 1 = Len(out) THEN "closed" ELSE chan
  /\ UNCHANGED <<reqVars, clientVars, uiVars, renderVars>>
  /\ UNCHANGED <<upstream, hpc, open, task, pos, out, closeRequested, startPc, aborted,
                 consumerGone>>

\* ReadableStream cancel: the underlying source's cancel() runs only when the
\* stream is still readable; cancel() { abortController.abort(); }
CancelSteps ==
  /\ chan' = IF chan = "readable" THEN "cancelled" ELSE chan
  /\ aborted' = (aborted \/ chan = "readable")

\* the consumer disconnects or cancels the response stream
ConsumerCancel ==
  /\ ~consumerGone
  /\ chan # "none"
  /\ consumerGone' = TRUE
  /\ CancelSteps
  /\ UNCHANGED <<reqVars, clientVars, uiVars, renderVars>>
  /\ UNCHANGED <<upstream, hpc, open, task, pos, out, nread, closeRequested, startPc>>

\* the consumer disconnects while the upstream streams are being opened: no
\* ReadableStream exists yet and nothing in the handler listens for it
DisconnectEarly ==
  /\ ~consumerGone
  /\ hpc = "opening"
  /\ consumerGone' = TRUE
  /\ UNCHANGED <<reqVars, clientVars, uiVars, renderVars>>
  /\ UNCHANGED <<upstream, hpc, open, task, pos, out, nread, chan, closeRequested,
                 startPc, aborted>>

\* the response is handed to a consumer that is already gone: the body is
\* cancelled as soon as it exists
LateCancel ==
  /\ consumerGone
  /\ chan = "readable"
  /\ CancelSteps
  /\ UNCHANGED <<reqVars, clientVars, uiVars, renderVars>>
  /\ UNCHANGED <<upstream, hpc, open, task, pos, out, nread, closeRequested, startPc,
                 consumerGone>>

NextMux ==
  \/ \E t \in Tones : OpenStream(t)
  \/ \E t \in Tones : OpenFail(t)
  \/ OpenCatch
  \/ StartStreaming
  \/ \E t \in Tones : TaskStep(t)
  \/ \E t \in Tones : TaskEnd(t)
  \/ \E t \in Tones : UpstreamFail(t)
  \/ StartResolve
  \/ StartCatch
  \/ ConsumerRead
  \/ ConsumerCancel
  \/ DisconnectEarly
  \/ LateCancel

SpecMux == InitMux /\ [][NextMux]_vars

\* the handler from the request to the Response it returns
NextHandle ==
  \/ HandleRequest
  \/ \E t \in Tones : OpenStream(t)
  \/ \E t \in Tones : OpenFail(t)
  \/ OpenCatch
  \/ StartStreaming
  \/ DisconnectEarly

SpecHandle == InitHandle /\ [][NextHandle]_vars

(***************************************************************************)
(* The client: the stream processing loop of sendMessage.                  *)
(***************************************************************************)
\* variant of flushResponse without the throttle
flushResponseUnthrottled(st, tone) ==
  [st EXCEPT !.html[tone] = parseMarkdown(st.responseText[tone]),
             !.lastRenderTime = st.now]

\* flushResponse(tone): renders unless the last render is less than
\* RENDER_THROTTLE_MS old
flushResponse(st, tone) ==
  IF st.now - st.lastRenderTime >= RENDER_THROTTLE_MS
    THEN [st EXCEPT !.html[tone] = parseMarkdown(st.responseText[tone]),
                    !.lastRenderTime = st.now]
    ELSE st

\* flushResponseImmediate(tone)
flushResponseImmediate(st, tone) ==
  [st EXCEPT !.html[tone] = parseMarkdown(st.responseText[tone]),
             !.lastRenderTime = st.now]

\* variant of flushThinking that toggles the section at every call
flushThinkingToggles(st, tone) ==
  [st EXCEPT !.thinkingContent[tone] = st.thinkingText[tone],
             !.thinkingDisplay[tone] = IF @ = "none" THEN "block" ELSE "none"]

\* flushThinking(tone)
flushThinking(st, tone) ==
  [st EXCEPT !.thinkingContent[tone] = st.thinkingText[tone],
             !.thinkingDisplay[tone] = IF Len(st.thinkingText[tone]) > 0 THEN "block" ELSE @]

\* variant of RouteEvent that routes a payload without a known tone to the
\* last tone
RouteEventDefaultTone(st, data) ==
  LET jsonData == JsonParse(data)
      named == Prop(jsonData.members, "tone")
      tone == IF named \in Tones THEN named ELSE tones[Len(tones)]
      thinking == Prop(jsonData.members, "thinking")
      response == Prop(jsonData.members, "response")
  IN IF ~jsonData.ok THEN st
     ELSE [st EXCEPT !.thinkingText[tone] = @ \o thinking,
                     !.responseText[tone] = @ \o response]

\* variant of RouteEvent that puts a fragment in front of the text
RouteEventPrepends(st, data) ==
  LET jsonData == JsonParse(data)
      tone == Prop(jsonData.members, "tone")
      thinking == Prop(jsonData.members, "thinking")
      response == Prop(jsonData.members, "response")
  IN IF ~jsonData.ok \/ tone = "" \/ tone \notin Tones THEN st
     ELSE [st EXCEPT !.thinkingText[tone] = thinking \o @,
                     !.responseText[tone] = response \o @]

\* the try block of the event loop: JSON.parse, routing by tone, appending
\* the fragments and flushing; a payload JSON.parse throws on, and a tone
\* that is absent or names no response element, leave everything as it is
RouteEvent(st, data) ==
  LET jsonData == JsonParse(data)
      tone == Prop(jsonData.members, "tone")
      thinking == Prop(jsonData.members, "thinking")
      response == Prop(jsonData.members, "response")
  IN IF ~jsonData.ok \/ tone = "" \/ tone \notin Tones THEN st
     ELSE LET Thought(s) ==
                IF thinking # ""
                  THEN The({flushThinking(x, tone) :
                              x \in {[s EXCEPT !.thinkingText[tone] = @ \o thinking]}})
                  ELSE s
              Answered(s) ==
                IF response # ""
                  THEN The({flushResponse(x, tone) :
                              x \in {[s EXCEPT !.responseText[tone] = @ \o response]}})
                  ELSE s
          IN The({Answered(y) : y \in {Thought(st)}})

RECURSIVE RouteEventsAbortsOnError(_, _)
\* variant of RouteEvents that gives up at the first payload that is not JSON
RouteEventsAbortsOnError(st, evs) ==
  IF evs = <<>> THEN st
  ELSE IF Head(evs) = "[DONE]" THEN [st EXCEPT !.done = TRUE]
  ELSE IF ~JsonParse(Head(evs)).ok THEN st
  ELSE The({RouteEventsAbortsOnError(x, Tail(evs)) : x \in {RouteEvent(st, Head(evs))}})

RECURSIVE RouteEventsPastDone(_, _)
\* variant of RouteEvents that notes the sentinel and goes on with the
\* payloads after it
RouteEventsPastDone(st, evs) ==
  IF evs = <<>> THEN st
  ELSE IF Head(evs) = "[DONE]" THEN RouteEventsPastDone([st EXCEPT !.done = TRUE], Tail(evs))
  ELSE The({RouteEventsPastDone(x, Tail(evs)) : x \in {RouteEvent(st, Head(evs))}})

RECURSIVE RouteEvents(_, _)
\* for (const data of parsed.events): stops at the payload "[DONE]"
RouteEvents(st, evs) ==
  IF evs = <<>> THEN st
  ELSE IF Head(evs) = "[DONE]" THEN [st EXCEPT !.done = TRUE]
  ELSE The({RouteEvents(x, Tail(evs)) : x \in {RouteEvent(st, Head(evs))}})

\* the response elements and the render clock as one value
StreamBuffers ==
  [thinkingText |-> thinkingText, responseText |-> responseText, done |-> FALSE,
   html |-> html, thinkingContent |-> thinkingContent, thinkingDisplay |-> thinkingDisplay,
   lastRenderTime |-> lastRenderTime, now |-> now]

\* the size of the chunks the transport delivers in this model (a chunk may
\* also hold all that is left): one byte short of the shortest token frame,
\* so that the cuts fall at varying places of the frames
ChunkSizes == {37}

ChunkLens(bytes) == {n \in 1..Len(bytes) : n \in ChunkSizes \/ n = Len(bytes)}

\* variant of FinalRender that goes through the throttle
FinalRenderThrottled(st) ==
  The({flushResponse(z, tones[3]) :
         z \in {flushResponse(y, tones[2]) : y \in {flushResponse(st, tones[1])}}})

\* tones.forEach((tone) => { flushResponseImmediate(tone); })
FinalRender(st) ==
  The({flushResponseImmediate(z, tones[3]) :
         z \in {flushResponseImmediate(y, tones[2]) :
                  y \in {flushResponseImmediate(st, tones[1])}}})

\* variant of PushCompleted that takes the text of the first tone
PushCompletedFirstTone(history, st) ==
  IF Len(st.responseText[tones[1]]) > 0
    THEN Append(history, [role |-> "assistant", content |-> st.responseText[tones[1]]])
    ELSE history

\* if (responseElements['professional'].responseText.length > 0) chatHistory.push(...)
PushCompleted(history, st) ==
  IF Len(st.responseText["professional"]) > 0
    THEN Append(history, [role |-> "assistant", content |-> st.responseText["professional"]])
    ELSE history

\* variant of Finally that leaves the controls disabled
FinallyKeepsDisabled ==
  /\ typingVisible' = FALSE
  /\ isProcessing' = FALSE
  /\ inputDisabled' = inputDisabled

\* the finally block
Finally ==
  /\ typingVisible' = FALSE
  /\ isProcessing' = FALSE
  /\ inputDisabled' = FALSE

\* the page while the loop goes on: the flushes of the routed payloads
Shown(st) ==
  /\ html' = st.html
  /\ thinkingContent' = st.thinkingContent
  /\ thinkingDisplay' = st.thinkingDisplay
  /\ lastRenderTime' = st.lastRenderTime

\* behind the loop: the final render, the history, the finally block
Finish(st) ==
  /\ \E fin \in {FinalRender(st)} : Shown(fin)
  /\ chatHistory' = PushCompleted(chatHistory, st)
  /\ Finally

\* "Sorry, there was an error processing your request."
FailureMessage == "Sorry, there was an error processing your request."

\* the catch block and the finally block
Fail ==
  /\ chatLog' = Append(chatLog, [role |-> "assistant",
                                 content |-> parseMarkdown(FailureMessage)])
  /\ Finally
  /\ cpc' = "failed"

\* variant of ClientRead that looks for frames in the new chunk alone: what
\* the chunk before left incomplete is forgotten
ClientReadForgetsBuffer(n) ==
  /\ cpc = "reading"
  /\ n \in ChunkLens(rest)
  /\ \E dec \in {Utf8Decode(SubSeq(rest, 1, n), decoderPending)} :
     \E parsed \in {consumeSseEvents(dec.text)} :
     \E st \in {RouteEvents(StreamBuffers, parsed.events)} :
        /\ decoderPending' = dec.pending
        /\ events' = events \o parsed.events
        /\ thinkingText' = st.thinkingText
        /\ responseText' = st.responseText
        /\ sawDone' = st.done
        /\ buffer' = IF st.done THEN "" ELSE parsed.buffer
        /\ cpc' = IF st.done THEN "complete" ELSE "reading"
        /\ IF st.done
             THEN Finish(st)
             ELSE /\ Shown(st)
                  /\ UNCHANGED <<chatHistory, typingVisible, isProcessing, inputDisabled>>
  /\ rest' = SliceFrom(rest, n)
  /\ UNCHANGED <<sent, wire, inputValue, sendReturn, chatLog, now>>
  /\ UNCHANGED <<muxVars, reqVars, renderVars>>

\* reader.read() returns a chunk: decode it, consume the complete frames,
\* route their payloads; on the sentinel empty the buffer, leave the loop and
\* finish
ClientRead(n) ==
  /\ cpc = "reading"
  /\ n \in ChunkLens(rest)
  /\ \E dec \in {Utf8Decode(SubSeq(rest, 1, n), decoderPending)} :
     \E parsed \in {consumeSseEvents(buffer \o dec.text)} :
     \E st \in {RouteEvents(StreamBuffers, parsed.events)} :
        /\ decoderPending' = dec.pending
        /\ events' = events \o parsed.events
        /\ thinkingText' = st.thinkingText
        /\ responseText' = st.responseText
        /\ sawDone' = st.done
        /\ buffer' = IF st.done THEN "" ELSE parsed.buffer
        /\ cpc' = IF st.done THEN "complete" ELSE "reading"
        /\ IF st.done
             THEN Finish(st)
             ELSE /\ Shown(st)
                  /\ UNCHANGED <<chatHistory, typingVisible, isProcessing, inputDisabled>>
  /\ rest' = SliceFrom(rest, n)
  /\ UNCHANGED <<sent, wire, inputValue, sendReturn, chatLog, now>>
  /\ UNCHANGED <<muxVars, reqVars, renderVars>>

\* variant of ClientReadDone that leaves the loop without a last decode
ClientReadDoneNoFlush ==
  /\ cpc = "reading"
  /\ rest = ""
  /\ cpc' = "complete"
  /\ Finish(StreamBuffers)
  /\ UNCHANGED <<sent, wire, rest, decoderPending, buffer, events, sawDone,
                 thinkingText, responseText, inputValue, sendReturn, chatLog, now>>
  /\ UNCHANGED <<muxVars, reqVars, renderVars>>

\* reader.read() returns done: the buffer is decoded once more with a frame
\* delimiter appended, its payloads are routed, the loop is left and the
\* exchange finished
ClientReadDone ==
  /\ cpc = "reading"
  /\ rest = ""
  /\ \E parsed \in {consumeSseEvents(buffer \o "\n\n")} :
     \E st \in {RouteEvents(StreamBuffers, parsed.events)} :
        /\ events' = events \o parsed.events
        /\ thinkingText' = st.thinkingText
        /\ responseText' = st.responseText
        /\ Finish(st)
  /\ cpc' = "complete"
  /\ UNCHANGED <<sent, wire, rest, decoderPending, buffer, sawDone, inputValue, sendReturn,
                 chatLog, now>>
  /\ UNCHANGED <<muxVars, reqVars, renderVars>>

\* reader.read() rejects (the server has put the channel in the error state,
\* or the connection broke): the catch block, the finally block
ClientReadError ==
  /\ cpc = "reading"
  /\ Fail
  /\ UNCHANGED <<sent, wire, rest, decoderPending, buffer, events, sawDone, thinkingText,
                 responseText, inputValue, sendReturn, chatHistory, html, thinkingContent,
                 thinkingDisplay, lastRenderTime, now>>
  /\ UNCHANGED <<muxVars, reqVars, renderVars>>

(***************************************************************************)
(* The response bodies the client is run on: up to MaxFrames frames, each  *)
(* a token frame as the Worker encodes it, a frame whose payload is not    *)
(* JSON, or the sentinel frame; the last frame with or without its blank   *)
(* line.  The fragment of a token frame is given by its position.          *)
(***************************************************************************)
FrameForms ==
  { [form |-> "token", tone |-> "rude", key |-> "response"],
    [form |-> "token", tone |-> "professional", key |-> "response"],
    [form |-> "token", tone |-> "rude", key |-> "thinking"],
    [form |-> "malformed", tone |-> "", key |-> ""],
    [form |-> "sentinel", tone |-> "", key |-> ""] }

FragmentAt(i) == <<"<", TwoByteChar, "c", "d", "e", "f">>[i]

FrameSeqs == UNION {[1..n -> FrameForms] : n \in 0..MaxFrames}

FrameText(d, i) ==
  CASE d.form = "token" -> SseData(d.tone, d.key, FragmentAt(i))
    [] d.form = "untagged" ->
         "data: {" \o JsonString(d.key) \o ":" \o JsonString(FragmentAt(i)) \o "}\n\n"
    [] d.form = "malformed" -> "data: {not json\n\n"
    [] d.form = "sentinel" -> "data: [DONE]\n\n"

RECURSIVE BodyText(_, _)
BodyText(frames, n) ==
  IF n = 0 THEN "" ELSE BodyText(frames, n - 1) \o FrameText(frames[n], n)

\* the bytes of the body; without the blank line of the last frame when
\* delimited is FALSE
WireOf(frames, delimited) ==
  LET bytes == Utf8Encode(BodyText(frames, Len(frames)))
  IN IF delimited \/ frames = <<>> THEN bytes ELSE SubSeq(bytes, 1, Len(bytes) - 2)

\* the page while the response of the first message is read
UiReading ==
  /\ inputValue = ""
  /\ sendReturn = "started"
  /\ isProcessing = TRUE
  /\ inputDisabled = TRUE
  /\ typingVisible = TRUE
  /\ chatHistory = Append(InitialHistory, [role |-> "user", content |-> "hi"])
  /\ chatLog = <<[role |-> "user", content |-> "hi"]>>
  /\ html = [t \in Tones |-> ""]
  /\ thinkingContent = [t \in Tones |-> ""]
  /\ thinkingDisplay = [t \in Tones |-> "none"]
  /\ lastRenderTime = 0
  /\ now = StartTime

InitClient ==
  /\ MuxIdle
  /\ UiReading
  /\ RenderIdle
  /\ sent \in FrameSeqs
  /\ \E delimited \in BOOLEAN : wire = WireOf(sent, delimited)
  /\ rest = wire
  /\ decoderPending = FALSE
  /\ buffer = ""
  /\ events = <<>>
  /\ sawDone = FALSE
  /\ cpc = "reading"
  /\ thinkingText = [t \in Tones |-> ""]
  /\ responseText = [t \in Tones |-> ""]

NextClient ==
  \/ \E n \in ChunkSizes \cup {Len(rest)} : ClientRead(n)
  \/ ClientReadDone

SpecClient == InitClient /\ [][NextClient]_vars

(***************************************************************************)
(* sendMessage as a whole: the message, the fetch, the loop, the end.      *)
(***************************************************************************)
\* what the user types into the input field
InputValues == {" ", "hi"}

\* the user edits the input field
TypeInput(v) ==
  /\ ~inputDisabled
  /\ inputValue # v
  /\ inputValue' = v
  /\ UNCHANGED <<sendReturn, isProcessing, inputDisabled, typingVisible, chatHistory, chatLog,
                 html,
                 thinkingContent, thinkingDisplay, lastRenderTime, now>>
  /\ UNCHANGED <<muxVars, reqVars, clientVars, renderVars>>

\* the messages sent so far
Sends == Cardinality({i \in 1..Len(chatHistory) : chatHistory[i].role = "user"})

\* sendMessage returns at its guard: nothing is touched
SendReturns ==
  /\ sendReturn' = "returned"
  /\ UNCHANGED <<inputValue, isProcessing, inputDisabled, typingVisible, chatHistory,
                 chatLog, html, thinkingContent, thinkingDisplay, lastRenderTime, now>>
  /\ UNCHANGED <<muxVars, reqVars, clientVars, renderVars>>

\* sendMessage behind its guard, up to the await of fetch: the controls, the
\* user message on the page and in the history, fresh response elements
SendStarts(message) ==
  /\ Sends < MaxSends
  /\ sendReturn' = "started"
  /\ chatLog' = Append(chatLog, [role |-> "user", content |-> message])
  /\ chatHistory' = Append(chatHistory, [role |-> "user", content |-> message])
  /\ isProcessing' = TRUE
  /\ inputDisabled' = TRUE
  /\ inputValue' = ""
  /\ typingVisible' = TRUE
  /\ thinkingText' = [t \in Tones |-> ""]
  /\ responseText' = [t \in Tones |-> ""]
  /\ html' = [t \in Tones |-> ""]
  /\ thinkingContent' = [t \in Tones |-> ""]
  /\ thinkingDisplay' = [t \in Tones |-> "none"]
  /\ cpc' = "fetching"
  \* the response, the reader, the decoder and the buffer of this call do not
  \* exist yet
  /\ sent' = <<>>
  /\ wire' = ""
  /\ rest' = ""
  /\ decoderPending' = FALSE
  /\ buffer' = ""
  /\ events' = <<>>
  /\ sawDone' = FALSE
  /\ lastRenderTime' = 0
  /\ UNCHANGED now
  /\ UNCHANGED <<muxVars, reqVars, renderVars>>

\* variant of sendMessage whose guard tests the flag only
SendMessageSendsBlank ==
  IF isProcessing THEN SendReturns ELSE SendStarts(Trim(inputValue))

\* sendMessage is called (Enter in the input field, a click on the button):
\* it returns at once on an empty message or while a message is processed
SendMessage ==
  LET message == Trim(inputValue)
  IN IF message = "" \/ isProcessing THEN SendReturns ELSE SendStarts(message)

\* fetch rejects, or the response is not ok, or it has no body: the throw
\* goes to the catch block
FetchFails(outcome) ==
  /\ cpc = "fetching"
  /\ outcome \in {"rejects", "notOk", "noBody"}
  /\ Fail
  /\ UNCHANGED <<sent, wire, rest, decoderPending, buffer, events, sawDone, thinkingText,
                 responseText, inputValue, sendReturn, chatHistory, html, thinkingContent,
                 thinkingDisplay, lastRenderTime, now>>
  /\ UNCHANGED <<muxVars, reqVars, renderVars>>

\* the frames of the response bodies sendMessage is run on
SendForms ==
  { [form |-> "token", tone |-> "rude", key |-> "response"],
    [form |-> "token", tone |-> "professional", key |-> "response"],
    [form |-> "token", tone |-> "rude", key |-> "thinking"],
    [form |-> "token", tone |-> "angry", key |-> "response"],
    [form |-> "untagged", tone |-> "", key |-> "thinking"],
    [form |-> "sentinel", tone |-> "", key |-> ""] }

\* the bodies the first message is answered with
FirstBodies == UNION {[1..n -> SendForms] : n \in 0..MaxSendFrames}

\* the bodies a later message is answered with: no frame or a single one
LaterBodies == {<<>>} \cup {<<f>> : f \in SendForms}

SendBodies == IF Sends <= 1 THEN FirstBodies ELSE LaterBodies

\* fetch resolves with a streamed body: the reader, the decoder, the buffer,
\* lastRenderTime and sawDone are set up
FetchOk(frames, delimited) ==
  /\ cpc = "fetching"
  /\ sent' = frames
  /\ wire' = WireOf(frames, delimited)
  /\ rest' = wire'
  /\ decoderPending' = FALSE
  /\ buffer' = ""
  /\ events' = <<>>
  /\ sawDone' = FALSE
  /\ lastRenderTime' = 0
  /\ cpc' = "reading"
  /\ UNCHANGED <<thinkingText, responseText, inputValue, sendReturn, isProcessing, inputDisabled,
                 typingVisible, chatHistory, chatLog, html, thinkingContent,
                 thinkingDisplay, now>>
  /\ UNCHANGED <<muxVars, reqVars, renderVars>>

\* time passes while the body is read; once the throttle interval has
\* passed since the last render, more time makes no difference to a flush
Tick ==
  /\ cpc = "reading"
  /\ now - lastRenderTime < RENDER_THROTTLE_MS
  /\ now' = now + RENDER_THROTTLE_MS
  /\ UNCHANGED <<inputValue, sendReturn, isProcessing, inputDisabled, typingVisible, chatHistory,
                 chatLog, html, thinkingContent, thinkingDisplay, lastRenderTime>>
  /\ UNCHANGED <<muxVars, reqVars, clientVars, renderVars>>

InitSend ==
  /\ MuxIdle
  /\ ClientIdle
  /\ UiIdle
  /\ RenderIdle

NextSend ==
  \/ \E v \in InputValues : TypeInput(v)
  \/ SendMessage
  \/ \E outcome \in {"rejects", "notOk", "noBody"} : FetchFails(outcome)
  \/ \E frames \in SendBodies, delimited \in BOOLEAN : FetchOk(frames, delimited)
  \/ \E n \in ChunkSizes \cup {Len(rest)} : ClientRead(n)
  \/ ClientReadDone
  \/ ClientReadError
  \/ Tick

SpecSend == InitSend /\ [][NextSend]_vars

(***************************************************************************)
(* The Worker and the page together, in an exchange without failure and   *)
(* without cancellation: the tasks enqueue frames, the connection carries  *)
(* the bytes of the frames in queue order, the page reads them in chunks.  *)
(***************************************************************************)
\* the next queued frame leaves the ReadableStream and its bytes are on the
\* connection; a requested close takes effect when the queue drains.  The
\* body is carried once the Worker has asked for the close: what the page
\* computes depends on the bytes and on the places of the cuts, not on the
\* moment the Worker wrote them.
Transmit ==
  /\ chan = "readable"
  /\ closeRequested
  /\ nread < Len(out)
  /\ nread' = nread + 1
  /\ chan' = IF closeRequested /\ nread + 1 = Len(out) THEN "closed" ELSE chan
  /\ \E bytes \in {Utf8Encode(out[nread + 1].data)} :
       /\ wire' = wire \o bytes
       /\ rest' = rest \o bytes
  /\ UNCHANGED <<upstream, hpc, open, task, pos, out, closeRequested, startPc, aborted,
                 consumerGone>>
  /\ UNCHANGED <<sent, decoderPending, buffer, events, sawDone, cpc, thinkingText,
                 responseText>>
  /\ UNCHANGED <<reqVars, uiVars, renderVars>>

\* reader.read() returns done: the stream is closed and every byte was read
PipeReadDone ==
  /\ chan = "closed"
  /\ ClientReadDone

\* the exchange when the Response has been returned and fetch has resolved
InitPipe ==
  /\ upstream \in UpstreamScripts
  /\ hpc = "streaming"
  /\ open = [t \in Tones |-> "open"]
  /\ task = [t \in Tones |-> "running"]
  /\ pos = [t \in Tones |-> 0]
  /\ out = <<>>
  /\ nread = 0
  /\ chan = "readable"
  /\ closeRequested = FALSE
  /\ startPc = "waiting"
  /\ aborted = FALSE
  /\ consumerGone = FALSE
  /\ apiKey = "key"
  /\ request = [shape |-> "array", messages |-> <<[role |-> "user", content |-> "hi"]>>]
  /\ reply = StreamReply
  /\ upstreamMessages =
       [t \in Tones |-> MessagesWithTone(t, UserMessages(request.messages))]
  /\ UiReading
  /\ RenderIdle
  /\ sent = <<>>
  /\ wire = ""
  /\ rest = ""
  /\ decoderPending = FALSE
  /\ buffer = ""
  /\ events = <<>>
  /\ sawDone = FALSE
  /\ cpc = "reading"
  /\ thinkingText = [t \in Tones |-> ""]
  /\ responseText = [t \in Tones |-> ""]

NextPipe ==
  \/ \E t \in Tones : TaskStep(t)
  \/ \E t \in Tones : TaskEnd(t)
  \/ StartResolve
  \/ Transmit
  \/ \E n \in ChunkSizes \cup {Len(rest)} : ClientRead(n)
  \/ PipeReadDone

SpecPipe == InitPipe /\ [][NextPipe]_vars

(***************************************************************************)
(* The decoder alone, fed an arbitrary byte string chunk by chunk: the     *)
(* decode step of the loop (decoder.decode, consumeSseEvents, buffer =     *)
(* parsed.buffer) without the routing.                                     *)
(***************************************************************************)
Pieces == {"data: x\n\n", "data:y", "data:  z\n", "\n", "\r\n", LeadByte \o ContinuationByte}

RECURSIVE PieceStrings(_)
PieceStrings(n) ==
  IF n = 0 THEN {""}
  ELSE LET shorter == PieceStrings(n - 1)
       IN shorter \cup {s \o p : s \in shorter, p \in Pieces}

Feed(n) ==
  /\ cpc = "decoding"
  /\ n \in 1..Len(rest)
  /\ \E dec \in {Utf8Decode(SubSeq(rest, 1, n), decoderPending)} :
     \E parsed \in {consumeSseEvents(buffer \o dec.text)} :
        /\ decoderPending' = dec.pending
        /\ events' = events \o parsed.events
        /\ buffer' = parsed.buffer
  /\ rest' = SliceFrom(rest, n)
  /\ UNCHANGED <<sent, wire, sawDone, cpc, thinkingText, responseText>>
  /\ UNCHANGED <<muxVars, reqVars, uiVars, renderVars>>

InitDecode ==
  /\ MuxIdle
  /\ UiIdle
  /\ RenderIdle
  /\ sent = <<>>
  /\ wire \in PieceStrings(MaxPieces)
  /\ rest = wire
  /\ decoderPending = FALSE
  /\ buffer = ""
  /\ events = <<>>
  /\ sawDone = FALSE
  /\ cpc = "decoding"
  /\ thinkingText = [t \in Tones |-> ""]
  /\ responseText = [t \in Tones |-> ""]

NextDecode == \E n \in 1..Len(rest) : Feed(n)

SpecDecode == InitDecode /\ [][NextDecode]_vars

(***************************************************************************)
(* parseMarkdown on its own: a text that grows piece by piece, as the      *)
(* response text of a tone does, rendered after every piece.               *)
(***************************************************************************)
MdPieces == {"- a", "1. b", "\n", "**", "_", "<u>&'\"", Backtick, "[t](/u)"}

AppendPiece(p) ==
  /\ npieces < MaxMdPieces
  /\ mdText' = mdText \o p
  /\ mdHtml' = parseMarkdown(mdText \o p)
  /\ npieces' = npieces + 1
  /\ UNCHANGED links
  /\ UNCHANGED <<muxVars, reqVars, clientVars, uiVars>>

InitRender ==
  /\ MuxIdle
  /\ ClientIdle
  /\ UiIdle
  /\ RenderIdle

NextRender == \E p \in MdPieces : AppendPiece(p)

SpecRender == InitRender /\ [][NextRender]_vars

\* the link targets and labels of the model, and the texts in front of a link
LinkTargets ==
  { "http://a", "HTTPS://a", "mailto:a", " /p ", "#f", "p/q", "//h",
    "javascript:a", " JavaScript:a", "java_script_:a", "data:a", "ftp://a", "x:y" }

LinkLabels == {"t", "t_u"}

LinkContexts == {"", "x", "_", "["}

AppendLink(label, target) ==
  /\ npieces < MaxLinks
  /\ mdText' = mdText \o "[" \o label \o "](" \o target \o ")"
  /\ mdHtml' = parseMarkdown(mdText')
  /\ npieces' = npieces + 1
  /\ links' = Append(links, target)
  /\ UNCHANGED <<muxVars, reqVars, clientVars, uiVars>>

InitLinks ==
  /\ MuxIdle
  /\ ClientIdle
  /\ UiIdle
  /\ mdText \in LinkContexts
  /\ mdHtml = parseMarkdown(mdText)
  /\ npieces = 0
  /\ links = <<>>

NextLinks == \E label \in LinkLabels, target \in LinkTargets : AppendLink(label, target)

SpecLinks == InitLinks /\ [][NextLinks]_vars

(***************************************************************************)
(* Properties of the multiplexer.                                          *)
(***************************************************************************)
RECURSIVE TokensOf(_, _)
\* the tokens the first n deltas of a stream carry, in production order
TokensOf(deltas, n) ==
  IF n = 0 THEN <<>>
  ELSE TokensOf(deltas, n - 1)
       \o (IF deltas[n].reasoning_content # ""
             THEN <<[key |-> "thinking", text |-> deltas[n].reasoning_content]>>
             ELSE <<>>)
       \o (IF deltas[n].content # ""
             THEN <<[key |-> "response", text |-> deltas[n].content]>>
             ELSE <<>>)

IsTone(t, frame) == frame.tone = t

\* the frames enqueued for tone t, in enqueue order
OutOf(t) == SelectSeq(out, LAMBDA f : IsTone(t, f))

ExpectedFrames(t) ==
  LET toks == TokensOf(upstream[t], pos[t])
  IN [i \in 1..Len(toks) |-> EncodedFrame[t][toks[i].key][toks[i].text]]

\* C1: for every tone, the frames enqueued for that tone are exactly the
\* frames of the tokens its upstream has produced so far, in production
\* order, whatever the interleaving of the three tasks.
C1_PerVariantOrder == \A t \in Tones : OutOf(t) = ExpectedFrames(t)

\* C1 witness: frames of two tones are interleaved on the channel: a frame of
\* one tone lies between two frames of another.
C1_Witness ==
  \E i, j, k \in 1..Len(out) :
    /\ i < j /\ j < k
    /\ out[i].tone = "rude"
    /\ out[j].tone = "friendly"
    /\ out[k].tone = "rude"

DoneFrame == "data: [DONE]\n\n"

SentinelCount == Cardinality({i \in 1..Len(out) : out[i].data = DoneFrame})

ClosedNormally == chan = "closed" \/ closeRequested

C4_CancelAbortsAll == consumerGone => aborted

\* the task of tone t enqueues the frames of its next chunk
Enqueues(t) == TaskStep(t) /\ pos'[t] = pos[t] + 1

Deliverable(t) == Available(t) /\ chan \notin {"closed", "errored", "cancelled"}

\* C5 (as stated): whenever the upstream of a tone has a token available, its
\* task can deliver it, whatever the state of the other tones.
C5_NeverBlocked == \A t \in Tones : Deliverable(t) => ENABLED Enqueues(t)

\* C5 (amended): once all N streams are open, whenever the upstream of a
\* tone has a token available its task can enqueue it, whatever the progress
\* of the other tones; while the streams are being opened nothing is
\* delivered.
C5_NotBlockedOnceOpen ==
  /\ \A t \in Tones : (hpc = "streaming" /\ Deliverable(t)) => ENABLED Enqueues(t)
  /\ hpc = "opening" => out = <<>>

\* C5 witness: one tone has delivered all its chunks while another, still
\* running, has not produced anything.
C5_Witness ==
  /\ pos["friendly"] = MaxChunks
  /\ OutOf("friendly") # <<>>
  /\ task["rude"] = "running"
  /\ pos["rude"] = 0

(***************************************************************************)
(* Properties of the decoder and of the client loop.                       *)
(***************************************************************************)
\* the payloads and the remainder of one call on all the bytes
WholeDecode == consumeSseEvents(Utf8Decode(wire, FALSE).text)

\* the payloads and the remainder still to come from the bytes not yet fed
RestDecode == consumeSseEvents(buffer \o Utf8Decode(rest, decoderPending).text)

\* C6: however the bytes are chopped into chunks, the payloads decoded so
\* far followed by those the rest of the bytes gives are the payloads of one
\* call on the whole string, with the same remainder; so, when all bytes are
\* fed, the payloads and the remainder are those of the one call.
C6_ChunkIndependence ==
  cpc = "decoding" =>
    /\ events \o RestDecode.events = WholeDecode.events
    /\ RestDecode.buffer = WholeDecode.buffer
    /\ rest = "" => (events = WholeDecode.events /\ buffer = WholeDecode.buffer)

\* C6 witness: a chunk ended inside a frame after a payload was decoded:
\* the buffer carries the beginning of a frame whose end is still to come.
C6_Witness ==
  /\ cpc = "decoding"
  /\ events # <<>>
  /\ buffer # ""
  /\ rest # ""
  /\ Len(WholeDecode.events) > Len(events)

RECURSIVE SentinelFree(_, _)
\* none of the first n frames is the sentinel
SentinelFree(frames, n) ==
  n = 0 \/ (frames[n].form # "sentinel" /\ SentinelFree(frames, n - 1))

RECURSIVE FragmentsOf(_, _, _, _)
\* the fragments, in order, of the token frames for tone t and the given key
\* among the first n frames, up to the first sentinel
FragmentsOf(frames, n, t, key) ==
  IF n = 0 THEN ""
  ELSE FragmentsOf(frames, n - 1, t, key)
       \o (IF /\ SentinelFree(frames, n)
              /\ frames[n].form = "token" /\ frames[n].tone = t /\ frames[n].key = key
             THEN FragmentAt(n) ELSE "")

ExpectedText(t, key) == FragmentsOf(sent, Len(sent), t, key)

\* C7: when the stream has completed, the responseText of every tone is the
\* concatenation, in arrival order, of the response fragments of the frames
\* routed to that tone before the end of the stream.
C7_ResponseIsConcatenation ==
  cpc = "complete" => \A t \in Tones : responseText[t] = ExpectedText(t, "response")

\* C7 witness: two response fragments of one tone arrived around a fragment
\* of another tone.
C7_Witness ==
  /\ cpc = "complete"
  /\ responseText["rude"] = FragmentAt(1) \o FragmentAt(3)
  /\ responseText["professional"] = FragmentAt(2)

\* a frame whose payload is not JSON comes before any sentinel
MalformedBeforeEnd ==
  \E i \in 1..Len(sent) : sent[i].form = "malformed" /\ SentinelFree(sent, i)

\* C8: a payload that is not JSON changes no text, and the well-formed frames
\* before and after it are routed: at the end of a stream that carried such a
\* payload, the texts of every tone are the fragments of the well-formed
\* frames alone.
C8_MalformedSkipped ==
  (cpc = "complete" /\ MalformedBeforeEnd) =>
    \A t \in Tones : /\ thinkingText[t] = ExpectedText(t, "thinking")
                     /\ responseText[t] = ExpectedText(t, "response")

\* C8 witness: a malformed frame between two well-formed frames of a tone,
\* both of which were routed.
C8_Witness ==
  /\ cpc = "complete"
  /\ Len(sent) = 3
  /\ sent[2].form = "malformed"
  /\ thinkingText["rude"] = FragmentAt(1)
  /\ responseText["rude"] = FragmentAt(3)

EndsDelimited == Len(wire) >= 2 /\ SubSeq(wire, Len(wire) - 1, Len(wire)) = "\n\n"

\* C10: at end of input without the sentinel seen, the loop is left, and the
\* frame at the end of the body is routed even though its blank line is
\* missing.
C10_FinalFlush ==
  /\ [](( /\ cpc = "complete" /\ ~sawDone
          /\ sent # <<>> /\ ~EndsDelimited) =>
          \A t \in Tones : /\ thinkingText[t] = ExpectedText(t, "thinking")
                           /\ responseText[t] = ExpectedText(t, "response"))
  /\ [][(cpc = "reading" /\ rest = "") => cpc' = "complete"]_vars

\* C10 witness: the body ended with a response frame without its blank line,
\* no sentinel was seen, and the fragment of that frame is in its tone's text.
C10_Witness ==
  /\ cpc = "complete"
  /\ ~sawDone
  /\ ~EndsDelimited
  /\ Len(sent) = 2
  /\ SentinelFree(sent, 2)
  /\ sent[2].form = "token" /\ sent[2].key = "response"
  /\ responseText[sent[2].tone] = ExpectedText(sent[2].tone, "response")
  /\ ExpectedText(sent[2].tone, "response") # ""

(***************************************************************************)
(* Properties of sendMessage, of the handler and of parseMarkdown.         *)
(***************************************************************************)
\* C11: when the stream has completed, by the sentinel or by the end of the
\* input, the HTML shown for every tone is the render of its complete
\* responseText, whatever the throttle did to the renders before.
C11_FinalRenderComplete ==
  cpc = "complete" => \A t \in Tones : html[t] = parseMarkdown(responseText[t])

\* C11 witness: the exchange completed without the clock having advanced, so
\* that the flush of the second response fragment of a tone was throttled,
\* and the HTML shown is the render of both fragments.
C11_Witness ==
  /\ cpc = "complete"
  /\ now = StartTime
  /\ Len(sent) = 2
  /\ responseText["rude"] = FragmentAt(1) \o FragmentAt(2)
  /\ html["rude"] = parseMarkdown(FragmentAt(1) \o FragmentAt(2))

LastOf(seq) == seq[Len(seq)]

FailureEntry == [role |-> "assistant", content |-> parseMarkdown(FailureMessage)]

\* C12: when sendMessage has ended, in success or in failure, isProcessing is
\* false and the controls are enabled; they are disabled exactly while a
\* message is processed; a failure has appended one failure message behind the
\* user's message, a success none.
C12_CleanupOnEveryExit ==
  /\ cpc \in {"complete", "failed"} => (~isProcessing /\ ~inputDisabled /\ ~typingVisible)
  /\ cpc \in {"fetching", "reading"} => (isProcessing /\ inputDisabled)
  /\ cpc = "failed" =>
       /\ LastOf(chatLog) = FailureEntry
       /\ chatLog[Len(chatLog) - 1].role = "user"
  /\ cpc = "complete" => LastOf(chatLog).role = "user"

\* C12 witness: the transport failed after a payload had been routed; the
\* controls are enabled again and the failure message is on the page.
C12_Witness ==
  /\ cpc = "failed"
  /\ events # <<>>
  /\ ~isProcessing
  /\ ~inputDisabled
  /\ LastOf(chatLog) = FailureEntry

RequestFails == request.shape \in {"throws", "null", "notArray"}

KeyMissing == apiKey = "" \/ Trim(apiKey) = ""

\* C13: a failure before streaming (a body that cannot be used, a missing or
\* blank API key, an upstream stream that cannot be opened) is answered by a
\* JSON error body with an error status, and no event stream exists then or
\* later; without a usable key no call to the model API is made.
C13_FailureBeforeStreaming ==
  /\ (hpc # "received" /\ (RequestFails \/ KeyMissing)) => reply.kind = "json"
  /\ hpc = "streaming" <=> reply.kind = "stream"
  /\ (\E t \in Tones : open[t] = "failed") => reply.kind # "stream"
  /\ hpc = "errorResponse" <=> reply.kind = "json"
  /\ reply.kind = "json" =>
       /\ reply.status >= 400
       /\ chan = "none" /\ startPc = "idle" /\ out = <<>>
  /\ (RequestFails \/ KeyMissing) => \A t \in Tones : open[t] = "notCalled"

\* C13 witness: one upstream stream could not be opened while another was
\* open already; the answer is the JSON error body.
C13_Witness ==
  /\ reply.kind = "json"
  /\ \E t \in Tones : open[t] = "failed"
  /\ \E t \in Tones : open[t] = "open"

RECURSIVE TagsBalanced(_, _)
\* every tag of the HTML text s that is opened is closed, in nesting order,
\* given the tags open before s; <br> has no closing tag, and the value of
\* the href attribute of an anchor ends at its closing quote
TagsBalanced(s, stack) ==
  LET i == IndexOf(s, "<")
      tail == SliceFrom(s, i)
  IN IF i = -1 THEN stack = <<>>
     ELSE IF StartsWith(tail, AnchorOpen)
       THEN LET value == SliceFrom(tail, Len(AnchorOpen))
                q == IndexOf(value, "\"")
                e == IF q = -1 THEN -1 ELSE IndexOf(SliceFrom(value, q), ">")
            IN e # -1 /\ TagsBalanced(SliceFrom(value, q + e + 1), Append(stack, "a"))
     ELSE LET e == IndexOf(tail, ">")
              name == Slice(tail, 1, e)
              behind == SliceFrom(tail, e + 1)
          IN /\ e # -1
             /\ IF name = "br" THEN TagsBalanced(behind, stack)
                ELSE IF StartsWith(name, "/")
                  THEN /\ stack # <<>>
                       /\ LastOf(stack) = SliceFrom(name, 1)
                       /\ TagsBalanced(behind, SubSeq(stack, 1, Len(stack) - 1))
                ELSE TagsBalanced(behind, Append(stack, name))

\* C14: every render is balanced: for every text, and so for every prefix of
\* a text rendered later, every tag of the HTML is closed in nesting order.
C14_RenderBalanced == TagsBalanced(mdHtml, <<>>)

RECURSIVE Hrefs(_)
\* the values of the href attributes of the anchors of an HTML text
Hrefs(s) ==
  LET i == IndexOf(s, AnchorOpen)
      value == SliceFrom(s, i + Len(AnchorOpen))
      q == IndexOf(value, "\"")
  IN IF i = -1 THEN <<>> ELSE <<Slice(value, 0, q)>> \o Hrefs(SliceFrom(value, q))

\* a target the link pass may keep: http://, https:// or mailto: in any case
\* of the letters, or a leading "/" or "#", or no colon, after trimming
TargetAllowed(target) ==
  LET t == Trim(target)
      l == ToLowerCase(t)
  IN \/ \E scheme \in {"http://", "https://", "mailto:"} : StartsWith(l, scheme)
     \/ CharAt(t, 0) \in {"/", "#"}
     \/ IndexOf(t, ":") = -1

\* C15: every link of the text is rendered as one anchor; the href of a
\* link whose target is not allowed is "#", and an href other than "#" holds
\* no scheme but http, https or mailto.
C15_LinkTargetsSanitized ==
  LET hrefs == Hrefs(mdHtml)
  IN /\ Len(hrefs) = Len(links)
     /\ \A i \in 1..Len(links) :
          /\ ~TargetAllowed(links[i]) => hrefs[i] = "#"
          /\ hrefs[i] = Trim(links[i]) => TargetAllowed(links[i])
          /\ hrefs[i] # "#" => TargetAllowed(hrefs[i])

\* C15 witness: a link with the javascript scheme, in capitals and behind a
\* blank, was rendered with the href "#".
C15_Witness ==
  /\ links = <<" JavaScript:a">>
  /\ Hrefs(mdHtml) = <<"#">>

\* the tags and the parts of tags the passes of parseMarkdown write
RendererTags ==
  { "<pre>", "</pre>", "<code>", "</code>", "<strong>", "</strong>", "<em>", "</em>",
    "<h1>", "</h1>", "<h2>", "</h2>", "<h3>", "</h3>", "<li>", "</li>", "<ul>", "</ul>",
    "<ol>", "</ol>", "<blockquote>", "</blockquote>", "<br>", "</a>",
    AnchorOpen, AnchorAttrs }

\* the entities escapeHtml writes
HtmlEntities == { "&amp;", "&lt;", "&gt;", "&quot;", "&#039;" }

Metacharacters == {"&", "<", ">", "\"", "'"}

RECURSIVE FirstOf(_, _, _, _)
\* the least index in lo..hi of s that holds one of chars, or -1
FirstOf(s, chars, lo, hi) ==
  IF lo > hi THEN -1
  ELSE IF lo = hi THEN (IF SubSeq(s, lo + 1, lo + 1) \in chars THEN lo ELSE -1)
  ELSE The({IF left # -1 THEN left ELSE FirstOf(s, chars, ((lo + hi) \div 2) + 1, hi) :
              left \in {FirstOf(s, chars, lo, (lo + hi) \div 2)}})

RECURSIVE OnlyRendererMarkup(_, _)
\* from index from on, every metacharacter of s is part of a tag of the
\* renderer or of an entity
OnlyRendererMarkup(s, from) ==
  \A i \in {FirstOf(s, Metacharacters, from, Len(s) - 1)} :
    \/ i = -1
    \/ \E t \in RendererTags \cup HtmlEntities :
         /\ Slice(s, i, i + Len(t)) = t
         /\ OnlyRendererMarkup(s, i + Len(t))

\* C16: the metacharacters of the text are escaped before anything else, so
\* every & < > " ' of the HTML is part of a tag the renderer wrote or of an
\* entity: none comes from the text as it was.
C16_InputEscaped == OnlyRendererMarkup(mdHtml, 0)

\* C16 witness: a text with an angle bracket and an ampersand inside a bold
\* span was rendered.
C16_Witness ==
  /\ IndexOf(mdText, "<u>&") # -1
  /\ IndexOf(mdHtml, "<strong>") # -1
  /\ IndexOf(mdHtml, "&lt;u&gt;&amp;") # -1

\* C17: after every decode pass the reassembly buffer holds no frame
\* delimiter.
C17_BufferHoldsNoFrame == IndexOf(buffer, "\n\n") = -1

\* C17 witness: a chunk ended between the two newlines of a delimiter: the
\* buffer ends with the first, the bytes to come begin with the second.
C17_Witness ==
  /\ cpc = "decoding"
  /\ buffer # ""
  /\ SubSeq(buffer, Len(buffer), Len(buffer)) = "\n"
  /\ rest # ""
  /\ SubSeq(rest, 1, 1) = "\n"

\* a frame whose payload is JSON without a tone, or with a tone that is none
\* of the three
UnroutableFrame(d) ==
  d.form = "untagged" \/ (d.form = "token" /\ d.tone \notin Tones)

\* C18: a payload without a tone, or with an unknown tone, changes no text,
\* and the payloads around it are routed: at the end of a stream that
\* carried such a payload the texts of every tone are the fragments of the
\* frames of that tone alone.
C18_UnknownToneSkipped ==
  (cpc = "complete" /\ \E i \in 1..Len(sent) : UnroutableFrame(sent[i])) =>
    \A t \in Tones : /\ thinkingText[t] = ExpectedText(t, "thinking")
                     /\ responseText[t] = ExpectedText(t, "response")

\* C18 witness: a frame with an unknown tone came before a frame of a known
\* tone, which was routed.
C18_Witness ==
  /\ cpc = "complete"
  /\ Len(sent) = 2
  /\ sent[1].tone = "angry"
  /\ sent[2].tone = "rude" /\ sent[2].key = "response"
  /\ responseText["rude"] = FragmentAt(2)
  /\ \A t \in Tones \ {"rude"} : responseText[t] = ""

\* C19: the thinking section of a tone is shown exactly when the thinking
\* text of the tone is not empty, so it is hidden when the exchange begins
\* and shown from the first thinking fragment on; once shown it stays shown
\* until the next message is sent.
C19_ThinkingShownOnce ==
  /\ [](\A t \in Tones : thinkingDisplay[t] = "block" <=> thinkingText[t] # "")
  /\ [][\A t \in Tones :
          (thinkingDisplay[t] = "block" /\ cpc' # "fetching")
            => thinkingDisplay'[t] = "block"]_vars

\* C19 witness: a second thinking fragment of a tone has arrived; its section
\* is shown, that of another tone is hidden.
C19_Witness ==
  /\ thinkingText["rude"] = FragmentAt(1) \o FragmentAt(2)
  /\ thinkingDisplay["rude"] = "block"
  /\ thinkingDisplay["professional"] = "none"

\* C20: the history ends with the user's message while the message is
\* processed and after a failure; after a completed exchange it ends with one
\* assistant entry behind the user's message, whose content is the complete
\* response text of the tone "professional", or, when that text is empty,
\* with the user's message.
C20_HistoryGetsFinalText ==
  LET final == ExpectedText("professional", "response")
      n == Len(chatHistory)
  IN /\ cpc \in {"fetching", "reading", "failed"} => LastOf(chatHistory).role = "user"
     /\ (cpc = "complete" /\ final = "") => LastOf(chatHistory).role = "user"
     /\ (cpc = "complete" /\ final # "") =>
          /\ LastOf(chatHistory) = [role |-> "assistant", content |-> final]
          /\ chatHistory[n - 1].role = "user"
     /\ \A i \in 1..n : chatHistory[i].content # FailureMessage

\* C20 witness: an exchange completed with two response fragments of the
\* tone "professional"; the history ends with their concatenation.
C20_Witness ==
  /\ cpc = "complete"
  /\ LastOf(chatHistory).role = "assistant"
  /\ LastOf(chatHistory).content = FragmentAt(1) \o FragmentAt(2)

\* the messages of the request whose role is not "system", in their order
NonSystemMessages == SelectSeq(request.messages, LAMBDA m : m.role # "system")

\* C21: once the calls to the model API are made, the messages given to the
\* call of a tone are one system entry, the instruction of that tone, and
\* behind it the messages of the request that are not system entries, in
\* their order; before the calls nothing is given to any upstream.
C21_OwnInstructionFirst ==
  \A t \in Tones :
    IF open[t] = "notCalled"
      THEN upstreamMessages[t] = <<>>
      ELSE /\ Head(upstreamMessages[t]) = [role |-> "system", content |-> TONE_PROMPTS[t]]
           /\ Tail(upstreamMessages[t]) = NonSystemMessages
           /\ \A i \in 2..Len(upstreamMessages[t]) : upstreamMessages[t][i].role # "system"

\* C21 witness: a request with two system entries between other messages,
\* one of them the instruction of another tone, was passed on.
C21_Witness ==
  /\ hpc = "opening"
  /\ Len(request.messages) = 6
  /\ Len(upstreamMessages["friendly"]) = 5
  /\ upstreamMessages["friendly"][2].role = "assistant"

\* C22: while the body is read, a step renders the response of at most one
\* tone, and only when the throttle interval has passed since the last
\* render of any tone, which then becomes the time of the last render; a
\* step taken earlier than that leaves the HTML of every tone and the time of
\* the last render as they are.
C22_SharedThrottleClock ==
  [][(cpc = "reading" /\ cpc' = "reading") =>
       LET rendered == {t \in Tones : html'[t] # html[t]}
       IN /\ Cardinality(rendered) <= 1
          /\ rendered # {} =>
               /\ now - lastRenderTime >= RENDER_THROTTLE_MS
               /\ lastRenderTime' = now
          /\ now - lastRenderTime < RENDER_THROTTLE_MS =>
               /\ html' = html
               /\ lastRenderTime' = lastRenderTime]_vars

\* C22 witness: response fragments of two tones arrived at the same time;
\* the first was rendered, the render of the second was skipped.
C22_Witness ==
  /\ cpc = "reading"
  /\ html["rude"] # ""
  /\ responseText["professional"] # ""
  /\ html["professional"] = ""
  /\ lastRenderTime = now

(***************************************************************************)
(* C23: the shape of the frames.                                           *)
(***************************************************************************)
\* the payload line of a frame: the text between "data: " and the blank line
PayloadLine(data) == Slice(data, Len("data: "), Len(data) - 2)

MemberKeys(members) == {members[i].key : i \in 1..Len(members)}

\* a frame is one "data: " line and a blank line; the line holds no raw
\* newline and is a JSON object of the tone and one non-empty string named
\* thinking or response
WellFormedFrame(f) ==
  /\ Slice(f.data, 0, Len("data: ")) = "data: "
  /\ SliceFrom(f.data, Len(f.data) - 2) = "\n\n"
  /\ \E line \in {PayloadLine(f.data)} :
       /\ IndexOf(line, "\n") = -1
       /\ \E p \in {JsonParse(line)} :
            /\ p.ok
            /\ Len(p.members) = 2
            /\ MemberKeys(p.members) \in {{"tone", "thinking"}, {"tone", "response"}}
            /\ Prop(p.members, "tone") = f.tone
            /\ Prop(p.members, "thinking") \o Prop(p.members, "response") # ""

\* what the payload of a frame says: the kind and the text of a token
TokenOfFrame(f) ==
  LET m == JsonParse(PayloadLine(f.data)).members
  IN IF Prop(m, "thinking") # ""
       THEN [key |-> "thinking", text |-> Prop(m, "thinking")]
       ELSE [key |-> "response", text |-> Prop(m, "response")]

\* C23: every frame handed to the channel is a line `data: <json>` followed
\* by a blank line, with no raw newline in the line, whose JSON carries the
\* tone of the task that enqueued it and exactly one of thinking and
\* response, a non-empty string; the frames of a tone say, in order, the
\* tokens of the chunks its stream has yielded: two frames, the reasoning
\* first, for a chunk with both fields, none for a chunk with neither.
C23_FrameShape ==
  /\ \A i \in 1..Len(out) : WellFormedFrame(out[i])
  /\ \A t \in Tones :
       \E fs \in {OutOf(t)} :
         [i \in 1..Len(fs) |-> TokenOfFrame(fs[i])] = TokensOf(upstream[t], pos[t])

\* C23 witness: the tasks are done; one stream yielded a chunk with both
\* fields, one a chunk with neither, and a fragment with a newline and a
\* quote was framed.
C23_Witness ==
  /\ \A t \in Tones : task[t] = "done"
  /\ \E t \in Tones : \E i \in 1..pos[t] :
       upstream[t][i].reasoning_content # "" /\ upstream[t][i].content # ""
  /\ \E t \in Tones : \E i \in 1..pos[t] :
       upstream[t][i].reasoning_content = "" /\ upstream[t][i].content = ""
  /\ \E i \in 1..Len(out) : IndexOf(out[i].data, "\\n\\\"") # -1

(***************************************************************************)
(* C24: what a frame is decoded to.                                        *)
(***************************************************************************)
\* a line without one space at its start, if it starts with a space
StripOneSpace(s) == IF StartsWith(s, " ") THEN SliceFrom(s, 1) ELSE s

RECURSIVE DataLinesOneSpace(_)
\* the lines that begin with "data:", without that prefix and without one
\* space behind it
DataLinesOneSpace(lines) ==
  IF lines = <<>> THEN <<>>
  ELSE (IF StartsWith(Head(lines), "data:")
          THEN <<StripOneSpace(SliceFrom(Head(lines), Len("data:")))>>
          ELSE <<>>)
       \o DataLinesOneSpace(Tail(lines))

RECURSIVE PayloadsOneSpace(_)
\* the payloads of the delimited regions of a text, one space stripped
PayloadsOneSpace(text) ==
  LET end == IndexOf(text, "\n\n")
  IN IF end = -1 THEN <<>>
     ELSE LET dataLines == DataLinesOneSpace(Split(Slice(text, 0, end), "\n"))
          IN (IF dataLines = <<>> THEN <<>> ELSE <<Join(dataLines, "\n")>>)
             \o PayloadsOneSpace(SliceFrom(text, end + 2))

\* the text the bytes of the wire stand for, without carriage returns
WireText == ReplaceCR(Utf8Decode(wire, FALSE).text)

\* C24 as stated: when all bytes are fed, the payloads are, region by
\* region, the lines beginning with "data:" without that prefix and without
\* one leading space (no more), joined with a newline; a region without a
\* data line gives no payload.
C24_OneLeadingSpace ==
  (cpc = "decoding" /\ rest = "") => events = PayloadsOneSpace(WireText)

(***************************************************************************)
(* C25: the grouping of list items.                                        *)
(***************************************************************************)
\* the closing tag of the list that is open, if one is
CloseOpen(kind) == IF kind = "" THEN <<>> ELSE <<"</" \o kind \o ">">>

RECURSIVE RunsWrapped(_, _, _, _)
\* the lines with every maximal run of items of one kind between the tags of
\* one list of that kind; cur is the kind of the run the line before is in
RunsWrapped(lines, i, result, cur) ==
  IF i > Len(lines) THEN result \o CloseOpen(cur)
  ELSE LET line == lines[i]
           kind == IF IsUlItem(line) THEN "ul" ELSE IF IsOlItem(line) THEN "ol" ELSE ""
           item == IF kind = "ul" THEN UlItem(line)
                   ELSE IF kind = "ol" THEN OlItem(line) ELSE line
       IN IF kind = cur /\ kind # ""
            THEN RunsWrapped(lines, i + 1, Append(result, item), cur)
          ELSE RunsWrapped(lines, i + 1,
                 result \o CloseOpen(cur)
                        \o (IF kind = "" THEN <<>> ELSE <<"<" \o kind \o ">">>)
                        \o <<item>>,
                 kind)

\* the lines the list pass of the last render was given
ListPassLines == Split(InlinePasses(escapeHtml(mdText)), "\n")

\* C25 as stated: the list pass puts every maximal run of consecutive
\* unordered (ordered) item lines into one <ul> (<ol>) of its own that holds
\* the items of that run and nothing else, closes the open list before any
\* other line, and leaves no list open at the end.
C25_RunsWrappedAlone ==
  ListLoop(ListPassLines, 1, <<>>, FALSE, FALSE) = RunsWrapped(ListPassLines, 1, <<>>, "")

(***************************************************************************)
(* C26: a frame read back.                                                 *)
(***************************************************************************)
\* the token the i-th enqueued frame was made for: the k-th token of its
\* tone, where the frame is the k-th frame of that tone
OriginOf(i) ==
  LET t == out[i].tone
      k == Cardinality({j \in 1..i : out[j].tone = t})
  IN [tone |-> t] @@ TokensOf(upstream[t], pos[t])[k]

\* the payload says the token: its tone, and its text under its kind
SaysToken(payload, token) ==
  \E p \in {JsonParse(payload)} :
    /\ p.ok
    /\ p.members = <<[key |-> "tone", value |-> token.tone],
                     [key |-> token.key, value |-> token.text]>>

\* C26: the bytes of every frame the Worker encodes for a token decode, in
\* the page, to exactly one payload with nothing left over, and the parse of
\* that payload gives the tone, the kind and the text of the token; so the
\* payloads the page has decoded when the exchange is complete say, one for
\* one and in order, the tokens of the enqueued frames.
C26_RoundTrip ==
  /\ \A i \in 1..Len(out) :
       \E back \in {consumeSseEvents(Utf8Decode(Utf8Encode(out[i].data), FALSE).text)} :
         /\ back.buffer = ""
         /\ Len(back.events) = 1
         /\ SaysToken(back.events[1], OriginOf(i))
  /\ cpc = "complete" =>
       /\ Len(events) = Len(out)
       /\ \A i \in 1..Len(out) : SaysToken(events[i], OriginOf(i))

\* C26 witness: the exchange is complete and among the frames read back are
\* one whose text holds a backslash, one with a newline and a quote and one
\* with a character of two bytes.
C26_Witness ==
  /\ cpc = "complete"
  /\ \E i, j, k \in 1..Len(out) :
       /\ OriginOf(i).text = "\\B"
       /\ OriginOf(j).text = "\n\""
       /\ OriginOf(k).text = TwoByteChar

(***************************************************************************)
(* C27: from the upstream streams to the texts of the page.                *)
(***************************************************************************)
RECURSIVE ProducedText(_, _, _)
\* the fragments of one kind in the first n chunks of the stream of tone t,
\* one after the other
ProducedText(t, key, n) ==
  IF n = 0 THEN ""
  ELSE ProducedText(t, key, n - 1)
       \o (IF key = "thinking" THEN upstream[t][n].reasoning_content
           ELSE upstream[t][n].content)

\* C27: when an exchange without failure and without cancellation is
\* complete, the response text the page holds for each tone is the content
\* fragments its upstream stream yielded, in the order it yielded them, and
\* the reasoning text is its reasoning fragments likewise, however the tasks
\* interleaved their frames and wherever the transport cut the bytes.
C27_EndToEndTexts ==
  cpc = "complete" =>
    \A t \in Tones :
      /\ responseText[t] = ProducedText(t, "response", pos[t])
      /\ thinkingText[t] = ProducedText(t, "thinking", pos[t])

\* C27 witness: a complete exchange in which every stream yielded all its
\* chunks, a frame of one tone lay between two frames of another on the
\* channel, and texts of both kinds arrived.
C27_Witness ==
  /\ cpc = "complete"
  /\ \A t \in Tones : pos[t] = MaxChunks
  /\ \E i, j, k \in 1..Len(out) :
       i < j /\ j < k /\ out[i].tone = out[k].tone /\ out[j].tone # out[i].tone
  /\ \E t \in Tones : responseText[t] # "" /\ thinkingText[t] # ""

(***************************************************************************)
(* C28: the other streams when one fails.                                  *)
(***************************************************************************)
\* the upstream request of tone t is under way: the create() call is pending,
\* or its stream is open and neither ended nor failed
UpstreamRunning(t) ==
  \/ open[t] = "pending"
  \/ open[t] = "open" /\ task[t] \in {"idle", "running"}

\* an upstream failed and the exchange ended in error: the error response was
\* returned, or the channel was put in the error state
EndedInError ==
  \/ hpc = "errorResponse" /\ \E t \in Tones : open[t] = "failed"
  \/ chan = "errored" /\ \E t \in Tones : task[t] = "failed"

\* C28 as stated: once an upstream failure has ended the exchange in error,
\* no upstream request of another tone is under way without the abort
\* signal having been given.
C28_FailureStopsOthers ==
  EndedInError => \A t \in Tones : UpstreamRunning(t) => aborted

SpecMuxFair ==
  /\ InitMux
  /\ [][NextMux]_vars
  /\ WF_vars(StartResolve)
  /\ WF_vars(StartCatch)
  /\ WF_vars(ConsumerRead)

\* a task has rejected
AnyFailed == \E t \in Tones : task[t] = "failed"

\* the channel has left the readable state for good
Terminal == chan \in {"closed", "errored", "cancelled"}

\* the channel is closed only when all tasks have resolved, it is in the
\* error state only when a task has rejected, and an end once reached stays
EndsOnce ==
  /\ [](chan = "closed" => AllSettled)
  /\ [](chan = "errored" => AnyFailed)
  /\ [][Terminal => chan' = chan]_vars

\* C30 as stated: the channel ends in one way only, and when all streams
\* have ended without error it is eventually closed, when one has failed it
\* is eventually in the error state.
C30_ClosedOrErrored ==
  /\ EndsOnce
  /\ AllSettled ~> chan = "closed"
  /\ AnyFailed ~> chan = "errored"

\* C30, amended: unless the consumer cancels.  The channel ends in one way
\* only; when all streams have ended without error it is eventually closed,
\* when one has failed it is eventually in the error state, or in either
\* case the consumer has cancelled it.
C30_OneTerminalState ==
  /\ EndsOnce
  /\ AllSettled ~> (chan = "closed" \/ chan = "cancelled")
  /\ AnyFailed ~> (chan = "errored" \/ chan = "cancelled")

\* C30 witness: all streams ended, the last after frames were enqueued, and
\* the channel was closed when the consumer had read the queue.
C30_Witness ==
  /\ AllSettled
  /\ chan = "closed"
  /\ closeRequested
  /\ Len(out) >= 2

====
